---- MODULE Spec2Model ----
(***************************************************************************)
(* Model of the conversational tool-call orchestration of src/index.tsx:   *)
(* MapApp.sendMessageAction, the sendMessageHandler closure installed by   *)
(* the DOMContentLoaded handler, the map-click path that feeds it, and the *)
(* text functions they use (camelCaseToDash, the confirmation-block regex).*)
(*                                                                         *)
(* Texts are sequences of one-character strings, so that the regular       *)
(* expressions of the source are modelled by what they match.  An await   *)
(* of the source is a step boundary.  At an await of the network (the      *)
(* model's stream, the geocoder) any event handler may run before the      *)
(* invocation resumes; at an await of marked.parse only promise jobs run.  *)
(***************************************************************************)
EXTENDS Integers, Sequences, FiniteSets, TLC

(***************************************************************************)
(* Bounds of the model.                                                    *)
(***************************************************************************)
\* number of send requests that may pass the IDLE gate in one behaviour
MaxSends == 2
\* number of parts the model streams in one behaviour, over all turns
MaxParts == 2
\* length of the tool-call names enumerated for camelCaseToDash
MaxNameLen == 4
\* number of pieces concatenated into a text handed to the redaction
MaxPieces == 4

(***************************************************************************)
(* Characters.                                                             *)
(***************************************************************************)
UpperSeq ==
    <<"A", "B", "C", "D", "E", "F", "G", "H", "I", "J", "K", "L", "M", "N",
    "O", "P", "Q", "R", "S", "T", "U", "V", "W", "X", "Y", "Z">>

LowerSeq ==
    <<"a", "b", "c", "d", "e", "f", "g", "h", "i", "j", "k", "l", "m", "n",
    "o", "p", "q", "r", "s", "t", "u", "v", "w", "x", "y", "z">>

\* the character class [A-Z]
Upper == {UpperSeq[i] : i \in 1..Len(UpperSeq)}

\* the character class [a-z]
Lower == {LowerSeq[i] : i \in 1..Len(LowerSeq)}

\* the character class \s, for the characters the model uses
Space == {" ", "\n"}

\* String.prototype.toLowerCase, one character
LowerChar(c) ==
    IF c \in Upper
    THEN LowerSeq[CHOOSE i \in 1..Len(UpperSeq) : UpperSeq[i] = c]
    ELSE c

\* mutant: the text is compared as it was written
toLowerCaseKept(s) == s

\* String.prototype.toLowerCase
toLowerCase(s) == [i \in 1..Len(s) |-> LowerChar(s[i])]

\* the rest of s from position i on (s.slice(i - 1))
From(s, i) == SubSeq(s, i, Len(s))

\* pat occurs in s at position i
MatchAt(s, pat, i) ==
    /\ i >= 1
    /\ i + Len(pat) - 1 <= Len(s)
    /\ SubSeq(s, i, i + Len(pat) - 1) = pat

\* String.prototype.includes
includes(s, pat) == \E i \in 1..(Len(s) + 1) : MatchAt(s, pat, i)

RECURSIVE TrimLeft(_)
TrimLeft(s) ==
    IF s # <<>> /\ Head(s) \in Space THEN TrimLeft(Tail(s)) ELSE s

RECURSIVE TrimRight(_)
TrimRight(s) ==
    IF s # <<>> /\ s[Len(s)] \in Space
    THEN TrimRight(SubSeq(s, 1, Len(s) - 1))
    ELSE s

\* String.prototype.trim
trim(s) == TrimRight(TrimLeft(s))

(***************************************************************************)
(* camelCaseToDash (src/index.tsx:74-79).                                  *)
(***************************************************************************)
\* .replace(/([a-z])([A-Z])/g, '$1-$2'): leftmost matches, each search
\* resuming after the end of the previous match
RECURSIVE ReplaceLowerUpper(_)
ReplaceLowerUpper(s) ==
    IF Len(s) < 2 THEN s
    ELSE IF s[1] \in Lower /\ s[2] \in Upper
         THEN <<s[1], "-", s[2]>> \o ReplaceLowerUpper(From(s, 3))
         ELSE <<s[1]>> \o ReplaceLowerUpper(Tail(s))

\* mutant: the second replacement is left out
ReplaceUpperUpperLowerSkipped(s) == s

\* .replace(/([A-Z])([A-Z][a-z])/g, '$1-$2')
RECURSIVE ReplaceUpperUpperLower(_)
ReplaceUpperUpperLower(s) ==
    IF Len(s) < 3 THEN s
    ELSE IF s[1] \in Upper /\ s[2] \in Upper /\ s[3] \in Lower
         THEN <<s[1], "-", s[2], s[3]>> \o ReplaceUpperUpperLower(From(s, 4))
         ELSE <<s[1]>> \o ReplaceUpperUpperLower(Tail(s))

\* mutant: the final .toLowerCase() is left out
camelCaseToDashNoLower(str) == ReplaceUpperUpperLower(ReplaceLowerUpper(str))

camelCaseToDash(str) ==
    toLowerCase(ReplaceUpperUpperLower(ReplaceLowerUpper(str)))

(***************************************************************************)
(* The confirmation-block regular expression                               *)
(* /<service_confirmation>[\s\S]*?<\/service_confirmation>/                *)
(* (src/index.tsx:192-195, 204-205, 220-222).                              *)
(***************************************************************************)
OpenTag ==
    <<"<", "s", "e", "r", "v", "i", "c", "e", "_", "c", "o", "n", "f", "i",
    "r", "m", "a", "t", "i", "o", "n", ">">>

CloseTag ==
    <<"<", "/", "s", "e", "r", "v", "i", "c", "e", "_", "c", "o", "n", "f",
    "i", "r", "m", "a", "t", "i", "o", "n", ">">>

\* mutant: [\s\S]* is greedy, the match runs to the last closing tag
RECURSIVE GreedyClose(_, _)
GreedyClose(s, i) ==
    IF i + Len(CloseTag) - 1 > Len(s) THEN 0
    ELSE LET later == GreedyClose(s, i + 1)
         IN  IF later # 0 THEN later
             ELSE IF MatchAt(s, CloseTag, i) THEN i ELSE 0

\* the lazy [\s\S]*? followed by the closing tag: the first position >= i
\* where the closing tag occurs, 0 when there is none
RECURSIVE LazyClose(_, _)
LazyClose(s, i) ==
    IF i + Len(CloseTag) - 1 > Len(s) THEN 0
    ELSE IF MatchAt(s, CloseTag, i) THEN i
    ELSE LazyClose(s, i + 1)

\* the regular expression's search from start position i: <<first, last>>
\* positions of the match, <<0, 0>> when there is none.  At each start
\* position the opening tag must match and the closing tag is then looked
\* for lazily; a start position that fails moves the search one further.
RECURSIVE confirmationRegex(_, _)
confirmationRegex(s, i) ==
    IF i + Len(OpenTag) - 1 > Len(s) THEN <<0, 0>>
    ELSE IF MatchAt(s, OpenTag, i) /\ LazyClose(s, i + Len(OpenTag)) # 0
         THEN <<i, LazyClose(s, i + Len(OpenTag)) + Len(CloseTag) - 1>>
         ELSE confirmationRegex(s, i + 1)

\* mutant: nothing is taken out of the text
RedactNothing(s) == s

\* newCode.replace(confirmationRegex, ''): the first match only
Redact(s) ==
    LET m == confirmationRegex(s, 1)
    IN  IF m[1] = 0 THEN s
        ELSE SubSeq(s, 1, m[1] - 1) \o From(s, m[2] + 1)

(***************************************************************************)
(* String literals of the source, as character sequences.                  *)
(***************************************************************************)
\* the placeholder '...' (src/index.tsx:105, 1075)
Ellipsis ==
    <<".", ".", ".">>

\* 'soy administrador' (src/index.tsx:1055)
AdminCommand ==
    <<"s", "o", "y", " ", "a", "d", "m", "i", "n", "i", "s", "t", "r", "a",
    "d", "o", "r">>

\* the phrase looked for in the rendered messages (src/index.tsx:258)
CallingFunction ==
    <<"C", "a", "l", "l", "i", "n", "g", " ", "f", "u", "n", "c", "t", "i",
    "o", "n", ":">>

\* the backquote character, which a TLA+ string cannot hold
Backtick == "backquote"

\* the explanation around JSON.stringify(mcpCall, null, 2)
\* (src/index.tsx:170-173)
ExplanationHead ==
    <<"C", "a", "l", "l", "i", "n", "g", " ", "f", "u", "n", "c", "t", "i",
    "o", "n", ":", "\n", Backtick, Backtick, Backtick, "j", "s", "o", "n", "\n">>

ExplanationTail ==
    <<"\n", Backtick, Backtick, Backtick>>

\* the default completion notice (src/index.tsx:261)
DoneNotice ==
    <<"D", "o", "n", "e", ".">>

\* the error message prefix (src/index.tsx:276)
ErrorPrefix ==
    <<"E", "r", "r", "o", "r", ":", " ">>

\* the trigger phrases of location selection (src/index.tsx:213-214)
TriggerEn ==
    <<"c", "l", "i", "c", "k", " ", "o", "n", " ", "t", "h", "e", " ", "m",
    "a", "p">>

TriggerEs ==
    <<"c", "l", "i", "c", " ", "e", "n", " ", "e", "l", " ", "m", "a", "p",
    "a">>

\* the labels of the four field expressions (src/index.tsx:226-229)
LabelName ==
    <<"N", "a", "m", "e", ":">>

LabelPhone ==
    <<"P", "h", "o", "n", "e", ":">>

LabelDetails ==
    <<"D", "e", "t", "a", "i", "l", "s", ":">>

LabelAddress ==
    <<"A", "d", "d", "r", "e", "s", "s", ":">>

\* the placeholder of absent details (src/index.tsx:241)
NoEspecificado ==
    <<"N", "o", " ", "e", "s", "p", "e", "c", "i", "f", "i", "c", "a", "d",
    "o">>

\* the prompt of the initial greeting (src/index.tsx:287), shortened
GreetingPrompt ==
    <<"P", "o", "r", " ", "f", "a", "v", "o", "r", ",", " ", "s", "a", "l",
    "u", "d", "a", " ", "a", "l", " ", "u", "s", "u", "a", "r", "i", "o",
    ".">>

\* texts the user types, an address the reverse geocoding returns
InputHola ==
    <<"N", "e", "c", "e", "s", "i", "t", "o", " ", "a", "y", "u", "d", "a">>

InputAdmin ==
    <<"S", "o", "y", " ", "A", "d", "m", "i", "n", "i", "s", "t", "r", "a",
    "d", "o", "r">>

AddressPicked ==
    <<"C", "a", "l", "l", "e", " ", "5", ",", " ", "M", "a", "z", "a", "m",
    "i", "t", "l", "a">>

\* a tool call of the model: viewLocationGoogleMaps{query: ...}
ViewLocationName ==
    <<"v", "i", "e", "w", "L", "o", "c", "a", "t", "i", "o", "n", "G", "o",
    "o", "g", "l", "e", "M", "a", "p", "s">>

QueryKey ==
    <<"q", "u", "e", "r", "y">>

QueryValue ==
    <<"M", "a", "z", "a", "m", "i", "t", "l", "a", ",", " ", "J", "a", "l",
    "i", "s", "c", "o">>

\* String(part.thought) of a reasoning part, the texts of the parts
ThoughtTrue ==
    <<"t", "r", "u", "e">>

TextHola ==
    <<"H", "o", "l", "a", ".", " ">>

TextClick ==
    <<"H", "a", "z", " ", "C", "l", "i", "c", " ", "e", "n", " ", "e", "l",
    " ", "m", "a", "p", "a", ".">>

TextBlock ==
    <<"<", "s", "e", "r", "v", "i", "c", "e", "_", "c", "o", "n", "f", "i",
    "r", "m", "a", "t", "i", "o", "n", ">", "\n", "N", "a", "m", "e", ":",
    " ", "J", "u", "a", "n", "\n", "P", "h", "o", "n", "e", ":", " ", "3",
    "3", "3", "4", "8", "5", "4", "0", "8", "0", "\n", "D", "e", "t", "a",
    "i", "l", "s", ":", " ", "l", "l", "a", "n", "t", "a", " ", "p", "o",
    "n", "c", "h", "a", "d", "a", "\n", "A", "d", "d", "r", "e", "s", "s",
    ":", " ", "C", "a", "l", "l", "e", " ", "5", ",", " ", "M", "a", "z",
    "a", "m", "i", "t", "l", "a", "\n", "<", "/", "s", "e", "r", "v", "i",
    "c", "e", "_", "c", "o", "n", "f", "i", "r", "m", "a", "t", "i", "o",
    "n", ">">>

\* the values of a confirmation block, and those of a second block
ValueName ==
    <<"J", "u", "a", "n">>

ValuePhone ==
    <<"3", "3", "3", "4", "8", "5", "4", "0", "8", "0">>

ValueDetails ==
    <<"l", "l", "a", "n", "t", "a", " ", "p", "o", "n", "c", "h", "a", "d",
    "a">>

SecondBlock ==
    <<"<", "s", "e", "r", "v", "i", "c", "e", "_", "c", "o", "n", "f", "i",
    "r", "m", "a", "t", "i", "o", "n", ">", "\n", "N", "a", "m", "e", ":",
    " ", "A", "n", "a", "\n", "P", "h", "o", "n", "e", ":", " ", "5", "5",
    "\n", "A", "d", "d", "r", "e", "s", "s", ":", " ", "S", "u", "r", "\n",
    "<", "/", "s", "e", "r", "v", "i", "c", "e", "_", "c", "o", "n", "f",
    "i", "r", "m", "a", "t", "i", "o", "n", ">">>

\* a text with the English trigger phrase in mixed case
TextClickEn ==
    <<"P", "l", "e", "a", "s", "e", " ", "C", "l", "i", "c", "k", " ", "O",
    "n", " ", "T", "h", "e", " ", "M", "a", "p", ".">>

\* the message of a thrown failure
FailureText ==
    <<"f", "e", "t", "c", "h", " ", "f", "a", "i", "l", "e", "d">>

\* the message of the geocoder callback of _handleViewLocation when the
\* query is not found (src/index.tsx:794), shortened and without diacritics
MapErrorText ==
    <<"N", "o", " ", "p", "u", "d", "e", " ", "e", "n", "c", "o", "n", "t",
    "r", "a", "r", " ", "l", "a", " ", "d", "i", "r", "e", "c", "c", "i",
    "o", "n", ":", " ", "\"", "M", "a", "z", "a", "m", "i", "t", "l", "a",
    ",", " ", "J", "a", "l", "i", "s", "c", "o", "\"", ".">>

\* the punctuation of JSON.stringify(mcpCall, null, 2)
JsonNameKey ==
    <<"{", "\n", " ", " ", "\"", "n", "a", "m", "e", "\"", ":", " ", "\"">>

JsonArgsKey ==
    <<"\"", ",", "\n", " ", " ", "\"", "a", "r", "g", "u", "m", "e", "n",
    "t", "s", "\"", ":", " ">>

JsonClose ==
    <<"\n", "}">>

(***************************************************************************)
(* Values.                                                                 *)
(***************************************************************************)
\* an absent price (price: null)
Null == <<"null">>

\* window.speechSynthesis with nothing queued
NoSpeech == <<>>

\* one part of a streamed chunk: part.functionCall (hasCall, name, args),
\* part.thought (thought, <<>> when falsy) and part.text (<<>> when falsy)
Part(hasCall, name, args, thought, text) ==
    [hasCall |-> hasCall, name |-> name, args |-> args,
     thought |-> thought, text |-> text]

NoPart == Part(FALSE, <<>>, <<>>, <<>>, <<>>)

CallPart == Part(TRUE, ViewLocationName, <<<<QueryKey, QueryValue>>>>, <<>>, <<>>)

ThoughtPart == Part(FALSE, <<>>, <<>>, ThoughtTrue, TextHola)

TextPart(text) == Part(FALSE, <<>>, <<>>, <<>>, text)

\* the parts the model streams in the specification of the chat
ChatParts ==
    {CallPart, ThoughtPart, TextPart(TextHola), TextPart(TextClick)}

\* the texts typed into the input field in the specification of the chat
ChatInputs == {InputHola}

\* one rendered message: the div of addMessage, with the class role-<role>,
\* the content of its .text element (md: it is the result of marked.parse
\* of text; otherwise text is the markup itself), the source rendered into
\* the thinking element, and the open attribute of the thinking container
Element(role, text) ==
    [role |-> role, md |-> FALSE, text |-> text, thinking |-> <<>>,
     open |-> FALSE]

\* MapApp.addMessage
addMessage(msgs, role, message) == Append(msgs, Element(role, message))

\* textElement.innerHTML = await marked.parse(src), on element i
SetRendered(msgs, i, src) ==
    [msgs EXCEPT ![i] = [@ EXCEPT !.md = TRUE, !.text = src]]

\* textElement.innerHTML = markup, on element i
SetRaw(msgs, i, markup) ==
    [msgs EXCEPT ![i] = [@ EXCEPT !.md = FALSE, !.text = markup]]

\* textElement.innerHTML.trim(): marked.parse of a blank source is empty
InnerHTMLEmpty(e) == trim(e.text) = <<>>

InnerHTMLIsEllipsis(e) == ~e.md /\ trim(e.text) = Ellipsis

\* el.innerHTML.includes('Calling function:')
HasCallingFunction(e) ==
    includes(e.text, CallingFunction) \/ includes(e.thinking, CallingFunction)

(***************************************************************************)
(* JSON.stringify(mcpCall, null, 2) and the explanation of a tool call     *)
(* (src/index.tsx:165-173).                                                *)
(***************************************************************************)
Quote(s) == <<"\"">> \o s \o <<"\"">>

RECURSIVE StringifyEntries(_, _)
StringifyEntries(args, i) ==
    IF i > Len(args) THEN <<>>
    ELSE <<" ", " ", " ", " ">> \o Quote(args[i][1]) \o <<":", " ">>
         \o Quote(args[i][2])
         \o (IF i < Len(args) THEN <<",", "\n">> ELSE <<>>)
         \o StringifyEntries(args, i + 1)

StringifyArgs(args) ==
    IF args = <<>> THEN <<"{", "}">>
    ELSE <<"{", "\n">> \o StringifyEntries(args, 1) \o <<"\n", " ", " ", "}">>

Stringify(call) ==
    JsonNameKey \o call.name \o JsonArgsKey \o StringifyArgs(call.arguments)
    \o JsonClose

\* mutant: the call is shown under the name the model gave
McpCallUnrenamed(part) == [name |-> part.name, arguments |-> part.args]

\* mcpCall of the functionCall branch
McpCall(part) == [name |-> camelCaseToDash(part.name), arguments |-> part.args]

Explanation(call) == ExplanationHead \o Stringify(call) \o ExplanationTail

(***************************************************************************)
(* The four field expressions (label, white space, rest of the line) and   *)
(* the record built from their captures                                    *)
(* (src/index.tsx:220-244).                                                *)
(***************************************************************************)
\* the first position >= i where label occurs in s, 0 when there is none
RECURSIVE FindFrom(_, _, _)
FindFrom(s, label, i) ==
    IF i + Len(label) - 1 > Len(s) THEN 0
    ELSE IF MatchAt(s, label, i) THEN i
    ELSE FindFrom(s, label, i + 1)

\* the white space after the label: greedy, line ends included
RECURSIVE SkipSpace(_, _)
SkipSpace(s, i) ==
    IF i <= Len(s) /\ s[i] \in Space THEN SkipSpace(s, i + 1) ELSE i

\* the capture group: any characters up to the end of the line
RECURSIVE RestOfLine(_, _)
RestOfLine(s, i) ==
    IF i > Len(s) \/ s[i] = "\n" THEN <<>>
    ELSE <<s[i]>> \o RestOfLine(s, i + 1)

\* detailsText.match of a field expression: found, and the capture group
FieldMatch(s, label) ==
    LET at == FindFrom(s, label, 1)
    IN  IF at = 0 THEN [found |-> FALSE, group |-> <<>>]
        ELSE [found |-> TRUE,
              group |-> RestOfLine(s, SkipSpace(s, at + Len(label)))]

\* xMatch ? xMatch[1].trim() : null, as truthiness and value: null and ''
\* are both falsy and are both given as <<>>
FieldValue(s, label) ==
    LET m == FieldMatch(s, label)
    IN  IF m.found THEN trim(m.group) ELSE <<>>

\* mutant: the capture group is greedy and runs to the last closing tag
BlockBodyGreedy(newCode) ==
    LET m == confirmationRegex(newCode, 1)
        ends == {j \in 1..Len(newCode) :
                    j >= m[2] /\ MatchAt(newCode, CloseTag, j - Len(CloseTag) + 1)}
        last == CHOOSE j \in ends : \A k \in ends : k <= j
    IN  IF m[1] = 0 THEN <<>>
        ELSE SubSeq(newCode, m[1] + Len(OpenTag), last - Len(CloseTag))

\* match[1] of newCode.match(confirmationRegex), <<>> when there is no match
BlockBody(newCode) ==
    LET m == confirmationRegex(newCode, 1)
    IN  IF m[1] = 0 THEN <<>>
        ELSE SubSeq(newCode, m[1] + Len(OpenTag), m[2] - Len(CloseTag))

\* mutant: absent details are not given the placeholder
ConfirmationNoDefault(newCode) ==
    LET body == BlockBody(newCode)
        name == FieldValue(body, LabelName)
        phone == FieldValue(body, LabelPhone)
        details == FieldValue(body, LabelDetails)
        address == FieldValue(body, LabelAddress)
    IN  IF body # <<>> /\ name # <<>> /\ address # <<>> /\ phone # <<>>
        THEN <<[name |-> name, address |-> address, phone |-> phone,
                details |-> details]>>
        ELSE <<>>

\* mutant: the record is committed whatever its fields hold
ConfirmationUnguarded(newCode) ==
    LET body == BlockBody(newCode)
        name == FieldValue(body, LabelName)
        phone == FieldValue(body, LabelPhone)
        details == FieldValue(body, LabelDetails)
        address == FieldValue(body, LabelAddress)
    IN  IF body # <<>>
        THEN <<[name |-> name, address |-> address, phone |-> phone,
                details |-> IF details # <<>> THEN details ELSE NoEspecificado]>>
        ELSE <<>>

\* mutant: the record is added twice
addServiceToHistoryTwice(history, d) ==
    LET r == [id |-> Len(history) + 1, name |-> d.name, phone |-> d.phone,
              address |-> d.address, details |-> d.details,
              status |-> "Pendiente", price |-> Null]
    IN  <<[r EXCEPT !.id = Len(history) + 2], r>> \o history

\* the records addServiceToHistory is called with for newCode: none or one
Confirmation(newCode) ==
    LET body == BlockBody(newCode)
        name == FieldValue(body, LabelName)
        phone == FieldValue(body, LabelPhone)
        details == FieldValue(body, LabelDetails)
        address == FieldValue(body, LabelAddress)
    IN  IF body # <<>> /\ name # <<>> /\ address # <<>> /\ phone # <<>>
        THEN <<[name |-> name, address |-> address, phone |-> phone,
                details |-> IF details # <<>> THEN details ELSE NoEspecificado]>>
        ELSE <<>>

\* MapApp.addServiceToHistory: the id is drawn fresh, given here as the
\* number of the record
addServiceToHistory(history, d) ==
    <<[id |-> Len(history) + 1, name |-> d.name, phone |-> d.phone,
       address |-> d.address, details |-> d.details, status |-> "Pendiente",
       price |-> Null]>> \o history

(***************************************************************************)
(* History reconstruction (src/index.tsx:130-150).                         *)
(***************************************************************************)
\* mutant: the elements of role error are kept
KeepAll(e) == TRUE

\* !el.classList.contains('role-error')
NotError(e) == e.role # "error"

\* mutant: the text content of the whole message is read, thoughts included
chatHistoryWithThinking(msgs) ==
    LET kept == SelectSeq(msgs, NotError)
    IN  [i \in 1..Len(kept) |->
            [role |-> IF kept[i].role = "user" THEN "user" ELSE "model",
             md |-> kept[i].md,
             text |-> trim(kept[i].thinking \o kept[i].text)]]

\* el.querySelector('.text')?.textContent?.trim() of each kept element; md
\* tells that the text content is that of the rendered markdown of text
chatHistory(msgs) ==
    LET kept == SelectSeq(msgs, NotError)
    IN  [i \in 1..Len(kept) |->
            [role |-> IF kept[i].role = "user" THEN "user" ELSE "model",
             md |-> kept[i].md, text |-> trim(kept[i].text)]]

\* mutant: the whole projection is handed over
KeepLast(h) == h

\* chatHistory.slice(0, -1)
DropLast(h) == SubSeq(h, 1, Len(h) - 1)

(***************************************************************************)
(* State.                                                                  *)
(***************************************************************************)
VARIABLES
    chatState,                \* MapApp.chatState
    messages,                 \* MapApp.messages
    inputMessage,             \* MapApp.inputMessage
    currentView,              \* MapApp.currentView
    currentAdminTab,          \* MapApp.currentAdminTab
    isLocationSelectionMode,  \* MapApp.isLocationSelectionMode
    locationSelectionMessage, \* MapApp.locationSelectionMessage
    selectionMarker,          \* MapApp.selectionMarker is attached to the map
    serviceHistory,           \* MapApp.serviceHistory
    sendMessageHandler,       \* MapApp.sendMessageHandler has been installed
    speech,                   \* the utterance window.speechSynthesis holds
    transportSent,            \* the calls index.tsx has sent through mcpClient
    turns,                    \* the invocations of sendMessageAction that
                              \* passed the gate: position and local variables
    geocodes,                 \* reverse-geocode requests awaiting their callback
    lastSend,                 \* how the latest call of sendMessageAction ended
    partsLeft,                \* number of parts the model may still stream
    probeIn,                  \* argument of the text function under check
    probeOut,                 \* its result
    mapElements,              \* the fields marker, routePolyline, originMarker
                              \* and destinationMarker: the query whose
                              \* element the field holds, 0 for undefined
    mapChildren,              \* the query elements appended to this.map
    mapRequests,              \* the geocoding and directions requests of the
                              \* map queries, in the order they were made
    inventory,                \* MapApp.inventory
    editingInventoryItem,     \* MapApp.editingInventoryItem: the item in a
                              \* sequence, <<>> for null
    localStorage              \* the item 'llantera-inventory' of localStorage

vars ==
    <<chatState, messages, inputMessage, currentView, currentAdminTab,
      isLocationSelectionMode, locationSelectionMessage, selectionMarker,
      serviceHistory, sendMessageHandler, speech, transportSent, turns,
      geocodes, lastSend, partsLeft, probeIn, probeOut,
      mapElements, mapChildren, mapRequests, inventory,
      editingInventoryItem, localStorage>>

\* the variables of the page
chatVars ==
    <<chatState, messages, inputMessage, currentView, currentAdminTab,
      isLocationSelectionMode, locationSelectionMessage, selectionMarker,
      serviceHistory, sendMessageHandler, speech, transportSent, turns,
      geocodes, lastSend, partsLeft, mapElements, mapChildren, mapRequests,
      inventory, editingInventoryItem, localStorage>>

\* what no call of sendMessageAction writes
sendFrame ==
    <<selectionMarker, serviceHistory, transportSent, partsLeft, probeIn,
      probeOut,
      mapElements, mapChildren, mapRequests, inventory,
      editingInventoryItem, localStorage>>

\* what no step of sendMessageHandler writes
turnFrame ==
    <<inputMessage, currentView, currentAdminTab, sendMessageHandler,
      transportSent, geocodes, lastSend, probeIn, probeOut,
      mapElements, mapChildren, mapRequests, inventory,
      editingInventoryItem, localStorage>>

\* number of map clicks whose reverse geocoding may be pending at once
MaxClicks == 1

\* the local variables of an invocation that is over
Finished ==
    [pc |-> "done", msg |-> <<>>, el |-> 0, own |-> 0, newCode |-> <<>>,
     thoughtAccumulator |-> <<>>, pending |-> <<>>, part |-> NoPart,
     received |-> 0, history |-> <<>>]

\* the positions between the start of sendMessageHandler and its finally.
\* "stream" is the await of aiChat.sendMessageStream and of each chunk of
\* the stream: nothing is written between the two awaits that follow the
\* start, so they are one position
HandlerPcs ==
    {"stream", "renderCall", "renderThought", "renderText",
     "renderDone", "renderError"}

\* the positions inside the try block: a failure there is caught
TryPcs == HandlerPcs \ {"renderError"}

InFlight == {t \in 1..Len(turns) : turns[t].pc \in HandlerPcs}

\* the positions at which an invocation awaits marked.parse
JobPcs ==
    {"parseMsg", "renderCall", "renderThought", "renderText", "renderDone",
     "renderError"}

\* mutant: event handlers run between the promise jobs of a rendering
JobsNeverPending == FALSE

\* A promise job is queued.  marked is configured with a highlight function
\* that returns its result synchronously (src/index.tsx:379-390), so the
\* promise of marked.parse is settled by promise jobs alone, and the event
\* loop runs no event listener, no geocoder callback and no stream chunk
\* before the job queue is empty: the continuation of await marked.parse
\* runs before the next event.
JobsPending == \E t \in 1..Len(turns) : turns[t].pc \in JobPcs

\* The state in which the DOMContentLoaded handler (src/index.tsx:81-293)
\* leaves the page: sendMessageHandler is installed, and
\* triggerInitialGreeting has called sendMessageAction with the greeting
\* prompt and the role 'system', which found no message and the state IDLE,
\* added the prompt's message and is suspended at await marked.parse(msg).
InitChat ==
    /\ chatState = "IDLE"
    /\ messages = addMessage(<<>>, "assistant", Ellipsis)
    /\ inputMessage = <<>>
    /\ currentView = "chat"
    /\ currentAdminTab = "history"
    /\ isLocationSelectionMode = FALSE
    /\ locationSelectionMessage = ""
    /\ selectionMarker = FALSE
    /\ serviceHistory = <<>>
    /\ sendMessageHandler = TRUE
    /\ speech = NoSpeech
    /\ transportSent = <<>>
    /\ turns = <<[Finished EXCEPT !.pc = "parseMsg", !.msg = GreetingPrompt,
                                 !.el = 1]>>
    /\ geocodes = 0
    /\ lastSend = "accepted"
    /\ partsLeft = MaxParts
    /\ mapElements = [marker |-> 0, routePolyline |-> 0, originMarker |-> 0,
                      destinationMarker |-> 0]
    /\ mapChildren = {}
    /\ mapRequests = <<>>
    /\ inventory = <<>>
    /\ editingInventoryItem = <<>>
    /\ localStorage = <<>>

Init ==
    /\ InitChat
    /\ probeIn = <<>>
    /\ probeOut = <<>>

(***************************************************************************)
(* MapApp.sendMessageAction (src/index.tsx:1040-1086), up to its first     *)
(* await.  message is <<>> for an absent (or empty) argument, role is ""   *)
(* for an absent one; selecting and selectionText are the values of        *)
(* isLocationSelectionMode and locationSelectionMessage when it is called. *)
(***************************************************************************)
\* mutant: the command is looked for in the message argument too
sendMessageBodyCommandAlways(message, role, selecting, selectionText) ==
    LET disable == selecting /\ message = <<>>
        msgRole == IF role # "" THEN role ELSE "user"
        msg == IF message # <<>> THEN trim(message) ELSE trim(inputMessage)
        admin == toLowerCase(msg) = AdminCommand
    IN  /\ speech' = NoSpeech
        /\ isLocationSelectionMode' = (selecting /\ ~disable)
        /\ locationSelectionMessage' = IF disable THEN "" ELSE selectionText
        /\ UNCHANGED chatState
        /\ IF admin
           THEN /\ currentView' = "admin"
                /\ currentAdminTab' = "history"
                /\ inputMessage' = <<>>
                /\ lastSend' = "admin"
                /\ UNCHANGED <<messages, turns>>
           ELSE /\ UNCHANGED <<currentView, currentAdminTab>>
                /\ inputMessage' =
                       IF message = <<>> /\ Len(msg) > 0 THEN <<>>
                       ELSE inputMessage
                /\ IF Len(msg) = 0
                   THEN /\ lastSend' = "empty"
                        /\ UNCHANGED <<messages, turns>>
                   ELSE /\ Len(turns) < MaxSends
                        /\ lastSend' = "accepted"
                        /\ messages' =
                               addMessage(messages,
                                   IF msgRole = "system" THEN "assistant"
                                   ELSE msgRole, Ellipsis)
                        /\ turns' =
                               Append(turns,
                                   [Finished EXCEPT !.pc = "parseMsg",
                                       !.msg = msg,
                                       !.el = Len(messages) + 1])

\* the body after the gate
sendMessageBody(message, role, selecting, selectionText) ==
    LET disable == selecting /\ message = <<>>
        msgRole == IF role # "" THEN role ELSE "user"
        msg == IF message # <<>> THEN trim(message) ELSE trim(inputMessage)
        admin == message = <<>> /\ toLowerCase(msg) = AdminCommand
    IN  /\ speech' = NoSpeech
        /\ isLocationSelectionMode' = (selecting /\ ~disable)
        /\ locationSelectionMessage' = IF disable THEN "" ELSE selectionText
        /\ UNCHANGED chatState
        /\ IF admin
           THEN /\ currentView' = "admin"
                /\ currentAdminTab' = "history"
                /\ inputMessage' = <<>>
                /\ lastSend' = "admin"
                /\ UNCHANGED <<messages, turns>>
           ELSE /\ UNCHANGED <<currentView, currentAdminTab>>
                /\ inputMessage' =
                       IF message = <<>> /\ Len(msg) > 0 THEN <<>>
                       ELSE inputMessage
                /\ IF Len(msg) = 0
                   THEN /\ lastSend' = "empty"
                        /\ UNCHANGED <<messages, turns>>
                   ELSE /\ Len(turns) < MaxSends
                        /\ lastSend' = "accepted"
                        /\ messages' =
                               addMessage(messages,
                                   IF msgRole = "system" THEN "assistant"
                                   ELSE msgRole, Ellipsis)
                        /\ turns' =
                               Append(turns,
                                   [Finished EXCEPT !.pc = "parseMsg",
                                       !.msg = msg,
                                       !.el = Len(messages) + 1])

\* mutant: the gate on chatState is missing
sendMessageUngated(message, role, selecting, selectionText) ==
    sendMessageBody(message, role, selecting, selectionText)

sendMessageAction(message, role, selecting, selectionText) ==
    IF chatState # "IDLE"
    THEN /\ lastSend' = "ignored"
         /\ isLocationSelectionMode' = selecting
         /\ locationSelectionMessage' = selectionText
         /\ UNCHANGED <<chatState, messages, inputMessage, currentView,
                        currentAdminTab, speech, turns>>
    ELSE sendMessageBody(message, role, selecting, selectionText)

(***************************************************************************)
(* The events that call sendMessageAction.                                 *)
(***************************************************************************)
\* the @input listener of the message field (src/index.tsx:1656-1660): the
\* user types a text into the empty field
TypeInput(text) ==
    /\ ~JobsPending
    /\ inputMessage = <<>>
    /\ inputMessage' = text
    /\ UNCHANGED <<chatState, messages, currentView, currentAdminTab,
                   isLocationSelectionMode, locationSelectionMessage,
                   selectionMarker, serviceHistory, sendMessageHandler,
                   speech, transportSent, turns, geocodes, lastSend,
                   partsLeft, probeIn, probeOut,
                   mapElements, mapChildren, mapRequests, inventory,
                   editingInventoryItem, localStorage>>

\* the Enter key and the send button (src/index.tsx:1130-1135, 1681-1683)
SendTyped ==
    /\ ~JobsPending
    /\ sendMessageAction(<<>>, "", isLocationSelectionMode,
                         locationSelectionMessage)
    /\ UNCHANGED <<sendMessageHandler, geocodes>>
    /\ UNCHANGED sendFrame

\* MapApp._handleMapClick up to the geocoder request (src/index.tsx:1152-1172);
\* the map is loaded, so that the geocoder and Marker3DElement exist
MapClick ==
    /\ ~JobsPending
    /\ isLocationSelectionMode
    /\ geocodes < MaxClicks
    /\ locationSelectionMessage' = "Confirmando direccion..."
    /\ selectionMarker' = TRUE
    /\ geocodes' = geocodes + 1
    /\ UNCHANGED <<chatState, messages, inputMessage, currentView,
                   currentAdminTab, isLocationSelectionMode, serviceHistory,
                   sendMessageHandler, speech, transportSent, turns, lastSend,
                   partsLeft, probeIn, probeOut,
                   mapElements, mapChildren, mapRequests, inventory,
                   editingInventoryItem, localStorage>>

\* the geocoder callback with status OK (src/index.tsx:1174-1177)
GeocodeOk ==
    /\ ~JobsPending
    /\ geocodes > 0
    /\ geocodes' = geocodes - 1
    /\ sendMessageAction(AddressPicked, "user", FALSE, "")
    /\ UNCHANGED sendMessageHandler
    /\ UNCHANGED sendFrame

\* the geocoder callback with another status (src/index.tsx:1178-1185)
GeocodeFailed ==
    /\ ~JobsPending
    /\ geocodes > 0
    /\ geocodes' = geocodes - 1
    /\ locationSelectionMessage' = "No se pudo determinar la direccion."
    /\ selectionMarker' = FALSE
    /\ UNCHANGED <<chatState, messages, inputMessage, currentView,
                   currentAdminTab, isLocationSelectionMode, serviceHistory,
                   sendMessageHandler, speech, transportSent, turns, lastSend,
                   partsLeft, probeIn, probeOut,
                   mapElements, mapChildren, mapRequests, inventory,
                   editingInventoryItem, localStorage>>

(***************************************************************************)
(* The map handler.  The SDK's tool binding delivers a tool call of the    *)
(* model to the map server, which calls MapApp.handleMapQuery; each tool   *)
(* call makes at most one query.                                           *)
(***************************************************************************)
\* the tool-call explanations shown so far
CallMessages == {i \in 1..Len(messages) : HasCallingFunction(messages[i])}

\* the messages of failed map queries shown so far
MapErrorMessages ==
    {i \in 1..Len(messages) :
        messages[i].role = "error" /\ messages[i].text = MapErrorText}

(***************************************************************************)
(* MapApp.handleMapQuery (src/index.tsx:970-979) as a function from the    *)
(* parameters of a map query to the sequence of map operations it starts.  *)
(* The operations are asynchronous and are not awaited, so nothing they    *)
(* throw reaches the caller.                                               *)
(***************************************************************************)
\* a field the caller left out of the parameters
Undefined == <<"undefined">>

\* the truthiness of a string field: present and not the empty string
Truthy(v) == v # Undefined /\ v # <<>>

\* this._handleViewLocation(locationQuery)
ViewLocationOp(locationQuery) ==
    [op |-> "viewLocation", location |-> locationQuery]

\* this._handleDirections(originQuery, destinationQuery)
DirectionsOp(originQuery, destinationQuery) ==
    [op |-> "directions", origin |-> originQuery,
     destination |-> destinationQuery]

\* mutant: the lone destination is tried before the pair
handleMapQueryDestinationFirst(params) ==
    IF Truthy(params.location)
    THEN <<ViewLocationOp(params.location)>>
    ELSE IF Truthy(params.destination)
    THEN <<ViewLocationOp(params.destination)>>
    ELSE IF Truthy(params.origin) /\ Truthy(params.destination)
    THEN <<DirectionsOp(params.origin, params.destination)>>
    ELSE <<>>

handleMapQuery(params) ==
    IF Truthy(params.location)
    THEN <<ViewLocationOp(params.location)>>
    ELSE IF Truthy(params.origin) /\ Truthy(params.destination)
    THEN <<DirectionsOp(params.origin, params.destination)>>
    ELSE IF Truthy(params.destination)
    THEN <<ViewLocationOp(params.destination)>>
    ELSE <<>>

\* number of map queries that reach the map
MaxQueries == 3

\* MapApp._clearMapElements: the element each field holds is removed from
\* the map and the field is set to undefined
clearMapElements ==
    /\ mapChildren' = {c \in mapChildren : mapElements[c.field] # c.q}
    /\ mapElements' = [f \in DOMAIN mapElements |-> 0]
    /\ selectionMarker' = FALSE

\* MapApp.handleMapQuery(params), called by the server of the transport
\* pair for a tool call (src/index.tsx:89-94), with _handleViewLocation and
\* _handleDirections up to their request; the map is loaded, so that the
\* geocoder, the directions service and the element classes exist.  The
\* request's place in mapRequests names the query.
MapQuery(params) ==
    LET ops == handleMapQuery(params)
    IN  /\ ~JobsPending
        /\ ops # <<>>
        /\ Len(mapRequests) < MaxQueries
        /\ clearMapElements
        /\ mapRequests' =
               Append(mapRequests, [op |-> ops[1].op, pending |-> TRUE])
        /\ UNCHANGED <<chatState, messages, inputMessage, currentView,
                       currentAdminTab, isLocationSelectionMode,
                       locationSelectionMessage, serviceHistory,
                       sendMessageHandler, speech, transportSent, turns,
                       geocodes, lastSend, partsLeft, probeIn, probeOut,
                       inventory, editingInventoryItem, localStorage>>

\* the callback of request i: of the geocoder (src/index.tsx:762-797) or of
\* the directions service (src/index.tsx:841-950).  With the status OK the
\* elements of the result are created, stored in their fields and appended
\* to the map (a route comes with its path and its legs); with another
\* status an error message is added and rendered.
MapCallback(i, ok) ==
    LET fields == IF mapRequests[i].op = "viewLocation"
                  THEN {"marker"}
                  ELSE {"routePolyline", "originMarker", "destinationMarker"}
    IN  /\ ~JobsPending
        /\ mapRequests[i].pending
        /\ mapRequests' = [mapRequests EXCEPT ![i].pending = FALSE]
        /\ IF ok
           THEN /\ mapElements' =
                       [f \in DOMAIN mapElements |->
                           IF f \in fields THEN i ELSE mapElements[f]]
                /\ mapChildren' =
                       mapChildren \cup {[field |-> f, q |-> i] : f \in fields}
                /\ UNCHANGED messages
           ELSE /\ messages' =
                       SetRendered(addMessage(messages, "error", <<>>),
                                   Len(messages) + 1, MapErrorText)
                /\ UNCHANGED <<mapElements, mapChildren>>
        /\ UNCHANGED <<chatState, inputMessage, currentView, currentAdminTab,
                       isLocationSelectionMode, locationSelectionMessage,
                       selectionMarker, serviceHistory, sendMessageHandler,
                       speech, transportSent, turns, geocodes, lastSend,
                       partsLeft, probeIn, probeOut, inventory,
                       editingInventoryItem, localStorage>>

\* the query of a view_location call while the marker of a map click is on
\* the map
HandleViewLocation ==
    /\ CallMessages # {}
    /\ selectionMarker
    /\ MapQuery([location |-> QueryValue, origin |-> Undefined,
                 destination |-> Undefined])

\* the geocoder callback of _handleViewLocation with a status other than OK
\* (src/index.tsx:790-797): an error message is added and rendered
MapHandlerError ==
    /\ ~JobsPending
    /\ Cardinality(MapErrorMessages) < Cardinality(CallMessages)
    /\ messages' =
           SetRendered(addMessage(messages, "error", <<>>),
                       Len(messages) + 1, MapErrorText)
    /\ UNCHANGED <<chatState, inputMessage, currentView, currentAdminTab,
                   isLocationSelectionMode, locationSelectionMessage,
                   selectionMarker, serviceHistory, sendMessageHandler,
                   speech, transportSent, turns, geocodes, lastSend,
                   partsLeft, probeIn, probeOut,
                   mapElements, mapChildren, mapRequests, inventory,
                   editingInventoryItem, localStorage>>

(***************************************************************************)
(* The steps of one invocation t, from one await to the next.              *)
(***************************************************************************)
SetTurn(t, r) == turns' = [turns EXCEPT ![t] = r]

\* finally { mapApp.setChatState(ChatState.IDLE) } (src/index.tsx:278-280)
Finally(t) ==
    /\ chatState' = "IDLE"
    /\ SetTurn(t, Finished)

\* mutant: sendMessageHandler does not set GENERATING when it starts
ParseMsgDoneNoGenerating(t) ==
    /\ turns[t].pc = "parseMsg"
    /\ LET shown == SetRendered(messages, turns[t].el, turns[t].msg)
           placed == addMessage(shown, "assistant", <<>>)
           own == Len(placed)
       IN  /\ messages' = SetRaw(placed, own, Ellipsis)
           /\ SetTurn(t, [turns[t] EXCEPT !.pc = "stream",
                             !.el = 0, !.own = own,
                             !.history = DropLast(chatHistory(placed))])
    /\ UNCHANGED <<chatState, isLocationSelectionMode,
                   locationSelectionMessage, selectionMarker, serviceHistory,
                   speech>>
    /\ UNCHANGED turnFrame
    /\ UNCHANGED partsLeft

\* await marked.parse(msg) of sendMessageAction resolves: the user message
\* is rendered and sendMessageHandler, when installed, runs up to
\* await aiChat.sendMessageStream (src/index.tsx:1077-1085, 98-154)
ParseMsgDone(t) ==
    /\ turns[t].pc = "parseMsg"
    /\ LET shown == SetRendered(messages, turns[t].el, turns[t].msg)
           placed == addMessage(shown, "assistant", <<>>)
           own == Len(placed)
       IN  IF sendMessageHandler
           THEN /\ messages' = SetRaw(placed, own, Ellipsis)
                /\ chatState' = "GENERATING"
                /\ SetTurn(t, [turns[t] EXCEPT !.pc = "stream",
                                  !.el = 0, !.own = own,
                                  !.history = DropLast(chatHistory(placed))])
           ELSE /\ messages' = shown
                /\ SetTurn(t, Finished)
                /\ UNCHANGED chatState
    /\ UNCHANGED <<isLocationSelectionMode, locationSelectionMessage,
                   selectionMarker, serviceHistory, speech>>
    /\ UNCHANGED turnFrame
    /\ UNCHANGED partsLeft

\* await marked.parse(msg) of sendMessageAction rejects: the invocation ends
\* before sendMessageHandler is called
ParseMsgFailed(t) ==
    /\ turns[t].pc = "parseMsg"
    /\ SetTurn(t, Finished)
    /\ UNCHANGED <<chatState, messages, isLocationSelectionMode,
                   locationSelectionMessage, selectionMarker, serviceHistory,
                   speech>>
    /\ UNCHANGED turnFrame
    /\ UNCHANGED partsLeft

\* mutant: each part replaces what was received before it
PartBodyNoAccumulation(t, msgs, r) ==
    /\ messages' = msgs
    /\ IF r.part.thought # <<>>
       THEN LET acc == <<" ">> \o r.part.thought
            IN  /\ chatState' = "THINKING"
                /\ SetTurn(t, [r EXCEPT !.pc = "renderThought",
                                  !.thoughtAccumulator = acc, !.pending = acc])
       ELSE IF r.part.text # <<>>
       THEN LET code == r.part.text
            IN  /\ chatState' = "EXECUTING"
                /\ SetTurn(t, [r EXCEPT !.pc = "renderText", !.newCode = code,
                                  !.pending = Redact(code)])
       ELSE /\ UNCHANGED chatState
            /\ SetTurn(t, [r EXCEPT !.pc = "stream", !.part = NoPart])

\* the part's thought / text branches and the end of the loop body
\* (src/index.tsx:181-198), on the messages msgs and the turn record r
PartBody(t, msgs, r) ==
    /\ messages' = msgs
    /\ IF r.part.thought # <<>>
       THEN LET acc == r.thoughtAccumulator \o <<" ">> \o r.part.thought
            IN  /\ chatState' = "THINKING"
                /\ SetTurn(t, [r EXCEPT !.pc = "renderThought",
                                  !.thoughtAccumulator = acc, !.pending = acc])
       ELSE IF r.part.text # <<>>
       THEN LET code == r.newCode \o r.part.text
            IN  /\ chatState' = "EXECUTING"
                /\ SetTurn(t, [r EXCEPT !.pc = "renderText", !.newCode = code,
                                  !.pending = Redact(code)])
       ELSE /\ UNCHANGED chatState
            /\ SetTurn(t, [r EXCEPT !.pc = "stream", !.part = NoPart])

\* mutant: a tool-call part also drives the chat state
RecvPartCallExecuting(t, part) ==
    /\ turns[t].pc = "stream"
    /\ ~JobsPending
    /\ partsLeft > 0
    /\ partsLeft' = partsLeft - 1
    /\ LET r == [turns[t] EXCEPT !.part = part, !.received = @ + 1]
       IN  IF part.hasCall
           THEN /\ messages' = addMessage(messages, "assistant", <<>>)
                /\ chatState' = "EXECUTING"
                /\ SetTurn(t, [r EXCEPT !.pc = "renderCall",
                                  !.el = Len(messages) + 1,
                                  !.pending = Explanation(McpCall(part))])
           ELSE PartBody(t, messages, r)
    /\ UNCHANGED <<isLocationSelectionMode, locationSelectionMessage,
                   selectionMarker, serviceHistory, speech>>
    /\ UNCHANGED turnFrame

\* the stream yields a part (src/index.tsx:156-178): a functionCall part
\* adds its own message and awaits the rendering of the explanation; any
\* other part goes on to the thought / text branches
RecvPart(t, part) ==
    /\ turns[t].pc = "stream"
    /\ ~JobsPending
    /\ partsLeft > 0
    /\ partsLeft' = partsLeft - 1
    /\ LET r == [turns[t] EXCEPT !.part = part, !.received = @ + 1]
       IN  IF part.hasCall
           THEN /\ messages' = addMessage(messages, "assistant", <<>>)
                /\ UNCHANGED chatState
                /\ SetTurn(t, [r EXCEPT !.pc = "renderCall",
                                  !.el = Len(messages) + 1,
                                  !.pending = Explanation(McpCall(part))])
           ELSE PartBody(t, messages, r)
    /\ UNCHANGED <<isLocationSelectionMode, locationSelectionMessage,
                   selectionMarker, serviceHistory, speech>>
    /\ UNCHANGED turnFrame

\* await marked.parse(explanation) resolves (src/index.tsx:178-198)
RenderCallDone(t) ==
    /\ turns[t].pc = "renderCall"
    /\ PartBody(t, SetRendered(messages, turns[t].el, turns[t].pending),
                [turns[t] EXCEPT !.el = 0, !.pending = <<>>])
    /\ UNCHANGED <<isLocationSelectionMode, locationSelectionMessage,
                   selectionMarker, serviceHistory, speech>>
    /\ UNCHANGED turnFrame
    /\ UNCHANGED partsLeft

\* await marked.parse(thoughtAccumulator) resolves (src/index.tsx:184-198)
RenderThoughtDone(t) ==
    /\ turns[t].pc = "renderThought"
    /\ messages' = [messages EXCEPT ![turns[t].own] =
                       [@ EXCEPT !.thinking = turns[t].pending, !.open = TRUE]]
    /\ SetTurn(t, [turns[t] EXCEPT !.pc = "stream", !.part = NoPart,
                      !.pending = <<>>])
    /\ UNCHANGED <<chatState, isLocationSelectionMode,
                   locationSelectionMessage, selectionMarker, serviceHistory,
                   speech>>
    /\ UNCHANGED turnFrame
    /\ UNCHANGED partsLeft

\* await marked.parse(userVisibleText) resolves (src/index.tsx:196-198)
RenderTextDone(t) ==
    /\ turns[t].pc = "renderText"
    /\ messages' = SetRendered(messages, turns[t].own, turns[t].pending)
    /\ SetTurn(t, [turns[t] EXCEPT !.pc = "stream", !.part = NoPart,
                      !.pending = <<>>])
    /\ UNCHANGED <<chatState, isLocationSelectionMode,
                   locationSelectionMessage, selectionMarker, serviceHistory,
                   speech>>
    /\ UNCHANGED turnFrame
    /\ UNCHANGED partsLeft

\* MapApp.speakMessage (src/index.tsx:1190-1214), not muted
speakMessage(text) ==
    LET cleanText == trim(Redact(text))
    IN  IF cleanText = <<>> THEN speech ELSE cleanText

\* the stream is exhausted: the processing after the loop
\* (src/index.tsx:203-265) and, unless the notice is to be rendered, finally
StreamEnd(t) ==
    /\ turns[t].pc = "stream"
    /\ ~JobsPending
    /\ LET newCode == turns[t].newCode
           own == turns[t].own
           finalUserVisibleText == trim(Redact(newCode))
           arm == \/ includes(toLowerCase(newCode), TriggerEn)
                  \/ includes(toLowerCase(newCode), TriggerEs)
           found == Confirmation(newCode)
           closed == [messages EXCEPT ![own] = [@ EXCEPT !.open = FALSE]]
           unfilled == \/ InnerHTMLIsEllipsis(messages[own])
                       \/ InnerHTMLEmpty(messages[own])
           hasFunctionCallMessage ==
               \E i \in 1..Len(messages) : HasCallingFunction(messages[i])
       IN  /\ speech' = IF finalUserVisibleText # <<>>
                        THEN speakMessage(finalUserVisibleText) ELSE speech
           /\ isLocationSelectionMode' = (arm \/ isLocationSelectionMode)
           /\ locationSelectionMessage' =
                  IF arm THEN "Haga clic en el mapa para establecer su ubicacion"
                  ELSE locationSelectionMessage
           /\ selectionMarker' = (selectionMarker /\ ~arm)
           /\ serviceHistory' =
                  IF found # <<>>
                  THEN addServiceToHistory(serviceHistory, found[1])
                  ELSE serviceHistory
           /\ IF unfilled /\ ~hasFunctionCallMessage
              THEN /\ messages' = closed
                   /\ UNCHANGED chatState
                   /\ SetTurn(t, [turns[t] EXCEPT !.pc = "renderDone",
                                     !.pending = DoneNotice])
              ELSE /\ messages' =
                          IF unfilled /\ InnerHTMLIsEllipsis(messages[own])
                          THEN SetRaw(closed, own, <<>>) ELSE closed
                   /\ Finally(t)
    /\ UNCHANGED turnFrame
    /\ UNCHANGED partsLeft

\* await marked.parse('Done.') resolves (src/index.tsx:261)
RenderDoneDone(t) ==
    /\ turns[t].pc = "renderDone"
    /\ messages' = SetRendered(messages, turns[t].own, turns[t].pending)
    /\ Finally(t)
    /\ UNCHANGED <<isLocationSelectionMode, locationSelectionMessage,
                   selectionMarker, serviceHistory, speech>>
    /\ UNCHANGED turnFrame
    /\ UNCHANGED partsLeft

\* mutant: a failure at the stream is answered by asking the model again
ThrowRetry(t) ==
    /\ turns[t].pc \in TryPcs
    /\ turns[t].pc = "stream" => ~JobsPending
    /\ SetTurn(t, [turns[t] EXCEPT !.pc = "stream", !.part = NoPart,
                      !.pending = <<>>])
    /\ UNCHANGED <<chatState, messages, isLocationSelectionMode,
                   locationSelectionMessage, selectionMarker, serviceHistory,
                   speech>>
    /\ UNCHANGED turnFrame
    /\ UNCHANGED partsLeft

\* mutant: the record of a block already received is committed when the
\* failure is caught
ThrowCommitting(t) ==
    /\ turns[t].pc \in TryPcs
    /\ turns[t].pc = "stream" => ~JobsPending
    /\ messages' = addMessage(messages, "error", <<>>)
    /\ SetTurn(t, [turns[t] EXCEPT !.pc = "renderError",
                      !.el = Len(messages) + 1, !.part = NoPart,
                      !.pending = ErrorPrefix \o FailureText])
    /\ serviceHistory' =
           IF Confirmation(turns[t].newCode) # <<>>
           THEN addServiceToHistory(serviceHistory,
                                    Confirmation(turns[t].newCode)[1])
           ELSE serviceHistory
    /\ UNCHANGED <<chatState, isLocationSelectionMode,
                   locationSelectionMessage, selectionMarker, speech>>
    /\ UNCHANGED turnFrame
    /\ UNCHANGED partsLeft

\* an awaited step inside the try block rejects (the stream as an event,
\* a rendering as a promise job): catch adds the error message and awaits
\* its rendering (src/index.tsx:266-277)
Throw(t) ==
    /\ turns[t].pc \in TryPcs
    /\ turns[t].pc = "stream" => ~JobsPending
    /\ messages' = addMessage(messages, "error", <<>>)
    /\ SetTurn(t, [turns[t] EXCEPT !.pc = "renderError",
                      !.el = Len(messages) + 1, !.part = NoPart,
                      !.pending = ErrorPrefix \o FailureText])
    /\ UNCHANGED <<chatState, isLocationSelectionMode,
                   locationSelectionMessage, selectionMarker, serviceHistory,
                   speech>>
    /\ UNCHANGED turnFrame
    /\ UNCHANGED partsLeft

\* mutant: the state is reset at the end of the try block, not in finally
RenderErrorDoneNoFinally(t) ==
    /\ turns[t].pc = "renderError"
    /\ messages' = SetRendered(messages, turns[t].el, turns[t].pending)
    /\ SetTurn(t, Finished)
    /\ UNCHANGED <<chatState, isLocationSelectionMode,
                   locationSelectionMessage, selectionMarker, serviceHistory,
                   speech>>
    /\ UNCHANGED turnFrame
    /\ UNCHANGED partsLeft

\* the error message is rendered, then finally (src/index.tsx:275-280)
RenderErrorDone(t) ==
    /\ turns[t].pc = "renderError"
    /\ messages' = SetRendered(messages, turns[t].el, turns[t].pending)
    /\ Finally(t)
    /\ UNCHANGED <<isLocationSelectionMode, locationSelectionMessage,
                   selectionMarker, serviceHistory, speech>>
    /\ UNCHANGED turnFrame
    /\ UNCHANGED partsLeft

\* the rendering of the error message rejects: finally still runs
RenderErrorFailed(t) ==
    /\ turns[t].pc = "renderError"
    /\ Finally(t)
    /\ UNCHANGED <<messages, isLocationSelectionMode,
                   locationSelectionMessage, selectionMarker, serviceHistory,
                   speech>>
    /\ UNCHANGED turnFrame
    /\ UNCHANGED partsLeft

(***************************************************************************)
(* The specification of the chat.                                          *)
(***************************************************************************)
Next ==
    \/ \E text \in ChatInputs : TypeInput(text)
    \/ SendTyped
    \/ MapClick
    \/ GeocodeOk
    \/ GeocodeFailed
    \/ \E t \in 1..Len(turns) :
        \/ ParseMsgDone(t)
        \/ ParseMsgFailed(t)
        \/ \E part \in ChatParts : RecvPart(t, part)
        \/ RenderCallDone(t)
        \/ RenderThoughtDone(t)
        \/ RenderTextDone(t)
        \/ StreamEnd(t)
        \/ RenderDoneDone(t)
        \/ Throw(t)
        \/ RenderErrorDone(t)
        \/ RenderErrorFailed(t)

Spec == Init /\ [][Next]_vars

\* the chat together with the map handler
NextMap ==
    \/ Next
    \/ HandleViewLocation
    \/ MapHandlerError

SpecMap == Init /\ [][NextMap]_vars

(***************************************************************************)
(* The specification of the processing after the stream: the greeting's    *)
(* turn has received its text, drawn from the confirmation blocks the      *)
(* model may write, and the stream ends.                                   *)
(***************************************************************************)
\* the four labels with the value the model writes after each
BlockLabels == {LabelName, LabelPhone, LabelDetails, LabelAddress}

LabelValue(label) ==
    CASE label = LabelName -> ValueName
      [] label = LabelPhone -> ValuePhone
      [] label = LabelDetails -> ValueDetails
      [] label = LabelAddress -> AddressPicked

\* one line of a block: the label, then its value or white space only
BlockLine(label, filled) ==
    label \o <<" ">> \o (IF filled THEN LabelValue(label) ELSE <<>>) \o <<"\n">>

\* the lines of a block: any of the four labels, each at most once, in any
\* order, each with its value or blank
BlockLineSeqs ==
    {ls \in UNION {[1..n -> BlockLabels \X BOOLEAN] :
                      n \in 0..Cardinality(BlockLabels)} :
        \A i, j \in 1..Len(ls) : i # j => ls[i][1] # ls[j][1]}

RECURSIVE BlockLines(_, _)
BlockLines(ls, i) ==
    IF i > Len(ls) THEN <<>>
    ELSE BlockLine(ls[i][1], ls[i][2]) \o BlockLines(ls, i + 1)

\* the block the model writes for the lines ls
BlockOf(ls) == OpenTag \o <<"\n">> \o BlockLines(ls, 1) \o CloseTag

\* the accumulated texts the stream ends with: one block, one block
\* followed by a second one, the complete block between other text, and
\* texts without a block
ExtractTexts ==
    {BlockOf(ls) \o rest : ls \in BlockLineSeqs, rest \in {<<>>, SecondBlock}}
    \cup {TextHola \o TextBlock \o TextHola, TextHola, TextClick, TextClickEn,
          TextClickEn \o TextBlock}

\* the greeting's turn after the text newCode has been received in one part
\* and rendered, a tool-call part having been received before it when called
InitExtract ==
    /\ \E newCode \in ExtractTexts, called \in BOOLEAN :
         LET first == SetRendered(addMessage(<<>>, "assistant", Ellipsis), 1,
                                  GreetingPrompt)
             placed == addMessage(first, "assistant", <<>>)
             explained ==
                 SetRendered(addMessage(placed, "assistant", <<>>), 3,
                             Explanation(McpCall(CallPart)))
         IN  /\ messages =
                    SetRendered(IF called THEN explained ELSE placed, 2,
                                Redact(newCode))
             /\ turns =
                    <<[Finished EXCEPT !.pc = "stream", !.msg = GreetingPrompt,
                          !.own = 2, !.newCode = newCode,
                          !.received = IF called THEN 2 ELSE 1,
                          !.history = DropLast(chatHistory(placed))]>>
    /\ chatState = "EXECUTING"
    /\ inputMessage = <<>>
    /\ currentView = "chat"
    /\ currentAdminTab = "history"
    /\ isLocationSelectionMode = FALSE
    /\ locationSelectionMessage = ""
    /\ selectionMarker = FALSE
    /\ serviceHistory = <<>>
    /\ sendMessageHandler = TRUE
    /\ speech = NoSpeech
    /\ transportSent = <<>>
    /\ geocodes = 0
    /\ lastSend = "accepted"
    /\ partsLeft = 0
    /\ probeIn = <<>>
    /\ probeOut = <<>>
    /\ mapElements = [marker |-> 0, routePolyline |-> 0, originMarker |-> 0,
                      destinationMarker |-> 0]
    /\ mapChildren = {}
    /\ mapRequests = <<>>
    /\ inventory = <<>>
    /\ editingInventoryItem = <<>>
    /\ localStorage = <<>>

NextExtract ==
    \E t \in 1..Len(turns) :
        \/ StreamEnd(t)
        \/ RenderDoneDone(t)
        \/ Throw(t)
        \/ RenderErrorDone(t)
        \/ RenderErrorFailed(t)

SpecExtract == InitExtract /\ [][NextExtract]_vars

(***************************************************************************)
(* The specifications of the text functions: the argument is drawn from a  *)
(* bounded set and the function is applied to it, then to its own result.  *)
(***************************************************************************)
\* the letters tool-call names are enumerated over
NameLetters == {"a", "b", "A", "B"}

\* the names handed to camelCaseToDash
Names ==
    {ViewLocationName}
    \cup UNION {[1..n -> NameLetters] : n \in 1..MaxNameLen}

InitRename ==
    /\ InitChat
    /\ probeIn \in Names
    /\ probeOut = <<>>

\* name: camelCaseToDash(part.functionCall.name) (src/index.tsx:166)
ApplyRename ==
    /\ probeOut = <<>>
    /\ probeOut' = <<camelCaseToDash(probeIn)>>
    /\ UNCHANGED <<chatVars, probeIn>>

\* the function applied to its own result
ReapplyRename ==
    /\ probeOut # <<>>
    /\ probeOut' = <<camelCaseToDash(probeOut[1])>>
    /\ UNCHANGED <<chatVars, probeIn>>

NextRename == ApplyRename \/ ReapplyRename

SpecRename == InitRename /\ [][NextRename]_vars

\* the pieces accumulated texts are made of
RedactPieces == {OpenTag, CloseTag, <<"a">>, <<"\n", "b">>, <<"<">>}

RECURSIVE Concat(_)
Concat(pieces) ==
    IF pieces = <<>> THEN <<>> ELSE Head(pieces) \o Concat(Tail(pieces))

\* the accumulated texts handed to the redaction
Texts ==
    {Concat(ps) : ps \in UNION {[1..n -> RedactPieces] : n \in 0..MaxPieces}}

InitRedact ==
    /\ InitChat
    /\ probeIn \in Texts
    /\ probeOut = <<>>

\* newCode.replace(confirmationRegex, '') (src/index.tsx:192-195, 204-205)
ApplyRedact ==
    /\ probeOut = <<>>
    /\ probeOut' = <<Redact(probeIn)>>
    /\ UNCHANGED <<chatVars, probeIn>>

\* speakMessage redacts the redacted text again (src/index.tsx:1193-1195)
ReapplyRedact ==
    /\ probeOut # <<>>
    /\ probeIn' = probeOut[1]
    /\ probeOut' = <<Redact(probeOut[1])>>
    /\ UNCHANGED chatVars

NextRedact == ApplyRedact \/ ReapplyRedact

SpecRedact == InitRedact /\ [][NextRedact]_vars

(***************************************************************************)
(* handleMapQuery alone, applied to every combination of parameters.       *)
(***************************************************************************)
\* the values a field of the parameters is drawn from
ParamValues == {Undefined, <<>>, QueryValue, AddressPicked}

\* the parameters handed to handleMapQuery
MapParams == [location : ParamValues, origin : ParamValues,
              destination : ParamValues]

InitRoute ==
    /\ InitChat
    /\ probeIn \in MapParams
    /\ probeOut = <<>>

\* mapApp.handleMapQuery(params) (src/index.tsx:92)
ApplyRoute ==
    /\ probeOut = <<>>
    /\ probeOut' = <<handleMapQuery(probeIn)>>
    /\ UNCHANGED <<chatVars, probeIn>>

NextRoute == ApplyRoute

SpecRoute == InitRoute /\ [][NextRoute]_vars

(***************************************************************************)
(* The fragment loop of one turn (src/index.tsx:156-198) on a stream that  *)
(* brings a confirmation block in pieces.                                  *)
(***************************************************************************)
\* number of parts the stream of the turn yields at most
MaxFragments == 3

\* a fragment that opens a confirmation block and ends inside its closing
\* tag, and the fragment that brings the rest of the closing tag
StreamHead == OpenTag \o <<"\n", "A", "\n", "<", "/">>

StreamTail == From(CloseTag, Len(<<"<", "/">>) + 1)

\* the parts the model streams in the specification of the fragment loop
StreamParts ==
    {ThoughtPart, TextPart(TextHola), TextPart(StreamHead),
     TextPart(StreamTail)}

\* the greeting's turn awaits the first chunk of its stream: the state
\* after ParseMsgDone in the initial state of the chat
InitStream ==
    /\ LET first == SetRendered(addMessage(<<>>, "assistant", Ellipsis), 1,
                                GreetingPrompt)
           placed == addMessage(first, "assistant", <<>>)
       IN  /\ messages = SetRaw(placed, 2, Ellipsis)
           /\ turns =
                  <<[Finished EXCEPT !.pc = "stream", !.msg = GreetingPrompt,
                        !.own = 2,
                        !.history = DropLast(chatHistory(placed))]>>
    /\ chatState = "GENERATING"
    /\ inputMessage = <<>>
    /\ currentView = "chat"
    /\ currentAdminTab = "history"
    /\ isLocationSelectionMode = FALSE
    /\ locationSelectionMessage = ""
    /\ selectionMarker = FALSE
    /\ serviceHistory = <<>>
    /\ sendMessageHandler = TRUE
    /\ speech = NoSpeech
    /\ transportSent = <<>>
    /\ geocodes = 0
    /\ lastSend = "accepted"
    /\ partsLeft = MaxFragments
    /\ probeIn = <<>>
    /\ probeOut = <<>>
    /\ mapElements = [marker |-> 0, routePolyline |-> 0, originMarker |-> 0,
                      destinationMarker |-> 0]
    /\ mapChildren = {}
    /\ mapRequests = <<>>
    /\ inventory = <<>>
    /\ editingInventoryItem = <<>>
    /\ localStorage = <<>>

NextStream ==
    \E t \in 1..Len(turns) :
        \/ \E part \in StreamParts : RecvPart(t, part)
        \/ RenderThoughtDone(t)
        \/ RenderTextDone(t)
        \/ StreamEnd(t)
        \/ RenderDoneDone(t)

SpecStream == InitStream /\ [][NextStream]_vars

(***************************************************************************)
(* The administrator panel (src/index.tsx:1088-1128, 1340-1400,            *)
(* 1483-1530).  The panel replaces the chat in the sidebar while           *)
(* currentView is 'admin'; the list of services and its action buttons are *)
(* rendered from serviceHistory, a reactive property, before the next      *)
(* event is handled.  alert, prompt and window.open change no state of the *)
(* application; alert and prompt block the page until they are answered.   *)
(***************************************************************************)
\* mutant: the status is written to every record
SetStatusOfAll(history, serviceId, status) ==
    [i \in 1..Len(history) |-> [history[i] EXCEPT !.status = status]]

\* this.serviceHistory.map(service => service.id === serviceId
\*     ? {...service, ...changes} : service), changes being a status
SetStatus(history, serviceId, status) ==
    [i \in 1..Len(history) |->
        IF history[i].id = serviceId
        THEN [history[i] EXCEPT !.status = status]
        ELSE history[i]]

\* MapApp._handleApprove
handleApprove(history, serviceId) ==
    IF \E i \in 1..Len(history) : history[i].id = serviceId
    THEN SetStatus(history, serviceId, "Aprobado")
    ELSE history

\* MapApp._handleProcess
handleProcess(history, serviceId) ==
    IF \E i \in 1..Len(history) : history[i].id = serviceId
    THEN SetStatus(history, serviceId, "En Proceso")
    ELSE history

\* mutant: whatever the prompt returned is taken as the price
handleFinishUnchecked(history, serviceId, price) ==
    [i \in 1..Len(history) |->
        IF history[i].id = serviceId
        THEN [history[i] EXCEPT !.status = "Terminado", !.price = price]
        ELSE history[i]]

\* mutant: only a cancelled dialog is refused, a blank answer is a price
handleFinishBlankAccepted(history, serviceId, price) ==
    IF /\ \E i \in 1..Len(history) : history[i].id = serviceId
       /\ price # Null
    THEN [i \in 1..Len(history) |->
             IF history[i].id = serviceId
             THEN [history[i] EXCEPT !.status = "Terminado", !.price = price]
             ELSE history[i]]
    ELSE history

\* MapApp._handleFinish; price is what prompt returned, Null when the
\* dialog was cancelled
handleFinish(history, serviceId, price) ==
    IF /\ \E i \in 1..Len(history) : history[i].id = serviceId
       /\ price # Null
       /\ trim(price) # <<>>
    THEN [i \in 1..Len(history) |->
             IF history[i].id = serviceId
             THEN [history[i] EXCEPT !.status = "Terminado", !.price = price]
             ELSE history[i]]
    ELSE history

\* the list of services is on the page
HistoryShown == currentView = "admin" /\ currentAdminTab = "history"

\* mutant: the button Aprobar is rendered for every service
ApproveShownAlways(service) == HistoryShown

\* the button Aprobar of a service is rendered
ApproveShown(service) == HistoryShown /\ service.status = "Pendiente"

\* the button En Proceso of a service is rendered
ProcessShown(service) == HistoryShown /\ service.status = "Aprobado"

\* the button Terminar of a service is rendered
FinishShown(service) == HistoryShown /\ service.status = "En Proceso"

\* what the price dialog returns: cancelled, emptied, blank, the default
\* left as it is, a price typed in
PromptResults ==
    {Null, <<>>, <<" ">>, <<"0", ".", "0", "0">>, <<"3", "5", "0">>}

\* a click on the button Aprobar of the i-th service of the list
ClickApprove(i) ==
    /\ ~JobsPending
    /\ i \in 1..Len(serviceHistory)
    /\ ApproveShown(serviceHistory[i])
    /\ serviceHistory' = handleApprove(serviceHistory, serviceHistory[i].id)
    /\ UNCHANGED <<chatState, messages, inputMessage, currentView,
                   currentAdminTab, isLocationSelectionMode,
                   locationSelectionMessage, selectionMarker,
                   sendMessageHandler, speech, transportSent, turns, geocodes,
                   lastSend, partsLeft, probeIn, probeOut,
                   mapElements, mapChildren, mapRequests, inventory,
                   editingInventoryItem, localStorage>>

\* a click on the button En Proceso of the i-th service of the list
ClickProcess(i) ==
    /\ ~JobsPending
    /\ i \in 1..Len(serviceHistory)
    /\ ProcessShown(serviceHistory[i])
    /\ serviceHistory' = handleProcess(serviceHistory, serviceHistory[i].id)
    /\ UNCHANGED <<chatState, messages, inputMessage, currentView,
                   currentAdminTab, isLocationSelectionMode,
                   locationSelectionMessage, selectionMarker,
                   sendMessageHandler, speech, transportSent, turns, geocodes,
                   lastSend, partsLeft, probeIn, probeOut,
                   mapElements, mapChildren, mapRequests, inventory,
                   editingInventoryItem, localStorage>>

\* a click on the button Terminar of the i-th service of the list, and the
\* answer to the price dialog
ClickFinish(i, price) ==
    /\ ~JobsPending
    /\ i \in 1..Len(serviceHistory)
    /\ FinishShown(serviceHistory[i])
    /\ serviceHistory' =
           handleFinish(serviceHistory, serviceHistory[i].id, price)
    /\ UNCHANGED <<chatState, messages, inputMessage, currentView,
                   currentAdminTab, isLocationSelectionMode,
                   locationSelectionMessage, selectionMarker,
                   sendMessageHandler, speech, transportSent, turns, geocodes,
                   lastSend, partsLeft, probeIn, probeOut,
                   mapElements, mapChildren, mapRequests, inventory,
                   editingInventoryItem, localStorage>>

\* the button Volver al Chat (src/index.tsx:1488-1490)
BackToChat ==
    /\ ~JobsPending
    /\ currentView = "admin"
    /\ currentView' = "chat"
    /\ UNCHANGED <<chatState, messages, inputMessage, currentAdminTab,
                   isLocationSelectionMode, locationSelectionMessage,
                   selectionMarker, serviceHistory, sendMessageHandler,
                   speech, transportSent, turns, geocodes, lastSend,
                   partsLeft, probeIn, probeOut,
                   mapElements, mapChildren, mapRequests, inventory,
                   editingInventoryItem, localStorage>>

\* the tabs of the panel (src/index.tsx:1512, 1523)
SelectAdminTab(tab) ==
    /\ ~JobsPending
    /\ currentView = "admin"
    /\ currentAdminTab # tab
    /\ currentAdminTab' = tab
    /\ UNCHANGED <<chatState, messages, inputMessage, currentView,
                   isLocationSelectionMode, locationSelectionMessage,
                   selectionMarker, serviceHistory, sendMessageHandler,
                   speech, transportSent, turns, geocodes, lastSend,
                   partsLeft, probeIn, probeOut,
                   mapElements, mapChildren, mapRequests, inventory,
                   editingInventoryItem, localStorage>>

\* The chat with the panel: every turn whose stream yields text yields a
\* complete confirmation block, so that services are recorded; the message
\* field and the send button exist in the chat view only.
NextAdmin ==
    \/ currentView = "chat" /\ \E text \in {InputHola, InputAdmin} : TypeInput(text)
    \/ currentView = "chat" /\ SendTyped
    \/ \E t \in 1..Len(turns) :
        \/ ParseMsgDone(t)
        \/ RecvPart(t, TextPart(TextBlock))
        \/ RenderTextDone(t)
        \/ StreamEnd(t)
        \/ RenderDoneDone(t)
    \/ \E i \in 1..Len(serviceHistory) :
        \/ ClickApprove(i)
        \/ ClickProcess(i)
        \/ \E price \in PromptResults : ClickFinish(i, price)
    \/ BackToChat
    \/ \E tab \in {"history", "inventory"} : SelectAdminTab(tab)

SpecAdmin == Init /\ [][NextAdmin]_vars

(***************************************************************************)
(* The elements of the map: map queries made while the stream of the       *)
(* greeting's turn is open, and the callbacks of their requests in any     *)
(* order and with either outcome.                                          *)
(***************************************************************************)
SpecElements ==
    Init /\ [][\/ \E t \in 1..Len(turns) : ParseMsgDone(t)
               \/ \E location \in {Undefined, QueryValue} :
                      MapQuery([location |-> location, origin |-> QueryValue,
                                destination |-> AddressPicked])
               \/ \E i \in 1..Len(mapRequests), ok \in BOOLEAN :
                      MapCallback(i, ok)]_vars

(***************************************************************************)
(* The administrator's command: typed into the input field in several      *)
(* letter cases, and coming as the address of a map click, once the        *)
(* greeting's reply has armed the selection of a location.                 *)
(***************************************************************************)
SpecCommand ==
    Init /\ [][\/ /\ currentView = "chat"
                  /\ \E text \in {InputAdmin, AdminCommand,
                                  <<" ">> \o AdminCommand \o <<" ">>,
                                  InputHola} : TypeInput(text)
               \/ currentView = "chat" /\ SendTyped
               \/ BackToChat
               \/ MapClick
               \/ /\ ~JobsPending
                  /\ geocodes > 0
                  /\ geocodes' = geocodes - 1
                  /\ sendMessageAction(InputAdmin, "user", FALSE, "")
                  /\ UNCHANGED sendMessageHandler
                  /\ UNCHANGED sendFrame
               \/ \E t \in 1..Len(turns) :
                   \/ ParseMsgDone(t)
                   \/ RecvPart(t, TextPart(TextClick))
                   \/ RenderTextDone(t)
                   \/ StreamEnd(t)
                   \/ RenderDoneDone(t)]_vars

(***************************************************************************)
(* The inventory tab of the administrator's view (src/index.tsx:1402-1480):*)
(* the form, and the buttons Editar and Eliminar of every item.  A form is *)
(* the content of the fields name, type, price and description when it is  *)
(* submitted.  The id of a new item (time and random suffix) is given as a *)
(* number no item on the page has.                                         *)
(***************************************************************************)
\* number of items the inventory may hold
MaxItems == 3

\* MapApp._handleInventorySubmit with MapApp._saveInventory
handleInventorySubmit(form) ==
    LET fresh == CHOOSE n \in 1..(2 * MaxItems + 2) :
                     /\ \A k \in 1..Len(inventory) : inventory[k].id # n
                     /\ editingInventoryItem # <<>> =>
                            editingInventoryItem[1].id # n
        id == IF editingInventoryItem # <<>>
              THEN editingInventoryItem[1].id ELSE fresh
        newItem == [id |-> id, name |-> form.name,
                    type |-> IF form.type # "" THEN form.type ELSE "Servicio",
                    price |-> IF form.price # "" THEN form.price ELSE "0",
                    description |-> form.description]
    IN  /\ ~JobsPending
        /\ currentView = "admin" /\ currentAdminTab = "inventory"
        /\ editingInventoryItem = <<>> => Len(inventory) < MaxItems
        /\ inventory' =
               IF editingInventoryItem # <<>>
               THEN [k \in 1..Len(inventory) |->
                        IF inventory[k].id = editingInventoryItem[1].id
                        THEN newItem ELSE inventory[k]]
               ELSE Append(inventory, newItem)
        /\ localStorage' = inventory'
        /\ editingInventoryItem' = <<>>
        /\ UNCHANGED <<chatState, messages, inputMessage, currentView,
                       currentAdminTab, isLocationSelectionMode,
                       locationSelectionMessage, selectionMarker,
                       serviceHistory, sendMessageHandler, speech,
                       transportSent, turns, geocodes, lastSend, partsLeft,
                       probeIn, probeOut, mapElements, mapChildren,
                       mapRequests>>

\* MapApp._editInventoryItem, for the button Editar of the i-th item
editInventoryItem(i) ==
    /\ ~JobsPending
    /\ currentView = "admin" /\ currentAdminTab = "inventory"
    /\ editingInventoryItem' = <<inventory[i]>>
    /\ UNCHANGED <<chatState, messages, inputMessage, currentView,
                   currentAdminTab, isLocationSelectionMode,
                   locationSelectionMessage, selectionMarker, serviceHistory,
                   sendMessageHandler, speech, transportSent, turns, geocodes,
                   lastSend, partsLeft, probeIn, probeOut, mapElements,
                   mapChildren, mapRequests, inventory, localStorage>>

\* MapApp._deleteInventoryItem, for the button Eliminar of the i-th item;
\* confirmed is the answer to the confirm dialog
deleteInventoryItem(i, confirmed) ==
    /\ ~JobsPending
    /\ currentView = "admin" /\ currentAdminTab = "inventory"
    /\ inventory' =
           IF confirmed
           THEN SelectSeq(inventory, LAMBDA item : item.id # inventory[i].id)
           ELSE inventory
    /\ localStorage' = IF confirmed THEN inventory' ELSE localStorage
    /\ UNCHANGED <<chatState, messages, inputMessage, currentView,
                   currentAdminTab, isLocationSelectionMode,
                   locationSelectionMessage, selectionMarker, serviceHistory,
                   sendMessageHandler, speech, transportSent, turns, geocodes,
                   lastSend, partsLeft, probeIn, probeOut, mapElements,
                   mapChildren, mapRequests, editingInventoryItem>>

\* MapApp._cancelEdit, for the button Cancelar, rendered while an item is
\* edited (src/index.tsx:1440-1442)
cancelEdit ==
    /\ ~JobsPending
    /\ currentView = "admin" /\ currentAdminTab = "inventory"
    /\ editingInventoryItem # <<>>
    /\ editingInventoryItem' = <<>>
    /\ UNCHANGED <<chatState, messages, inputMessage, currentView,
                   currentAdminTab, isLocationSelectionMode,
                   locationSelectionMessage, selectionMarker, serviceHistory,
                   sendMessageHandler, speech, transportSent, turns, geocodes,
                   lastSend, partsLeft, probeIn, probeOut, mapElements,
                   mapChildren, mapRequests, inventory, localStorage>>

\* the greeting's turn ends, the administrator's command opens the panel,
\* and the forms are submitted between the other operations in any order
SpecInventory ==
    Init /\ [][\/ \E t \in 1..Len(turns) :
                   \/ ParseMsgDone(t)
                   \/ StreamEnd(t)
                   \/ RenderDoneDone(t)
               \/ currentView = "chat" /\ TypeInput(InputAdmin)
               \/ currentView = "chat" /\ SendTyped
               \/ SelectAdminTab("inventory")
               \/ \E form \in {[name |-> "Llanta", type |-> "Producto",
                                price |-> "100", description |-> "R15"],
                               [name |-> "Parche", type |-> "",
                                price |-> "", description |-> ""]} :
                      handleInventorySubmit(form)
               \/ \E i \in 1..Len(inventory) :
                      \/ editInventoryItem(i)
                      \/ \E confirmed \in BOOLEAN :
                             deleteInventoryItem(i, confirmed)
               \/ cancelEdit]_vars

(***************************************************************************)
(* The claims.                                                             *)
(***************************************************************************)
\* 'view-location-google-maps', the name the spec expects for
\* viewLocationGoogleMaps
ViewLocationDashed ==
    <<"v", "i", "e", "w", "-", "l", "o", "c", "a", "t", "i", "o", "n", "-",
    "g", "o", "o", "g", "l", "e", "-", "m", "a", "p", "s">>

\* C1: in every reachable state at most one invocation of
\* sendMessageHandler is between its start and its finally block.
C1_AtMostOneTurnInFlight == Cardinality(InFlight) <= 1

\* the turn of an address picked on the map is in flight after the greeting's
\* turn is over, and a typed send request has been turned away meanwhile
C1_Witness ==
    /\ Len(turns) = 2
    /\ turns[1].pc = "done"
    /\ turns[2].pc = "stream"
    /\ turns[2].msg = AddressPicked
    /\ lastSend = "ignored"

\* C2: a send request made while chatState is not IDLE changes nothing: no
\* message is appended, no invocation is started, and inputMessage,
\* currentView and the location-selection mode keep their values (the
\* geocode callback clears the mode itself before it makes its request).
C2_IgnoredSendHasNoEffect ==
    [][chatState # "IDLE" =>
         /\ SendTyped =>
                UNCHANGED <<chatState, messages, turns, inputMessage,
                            currentView, currentAdminTab,
                            isLocationSelectionMode, locationSelectionMessage,
                            speech, serviceHistory>>
         /\ GeocodeOk =>
                UNCHANGED <<chatState, messages, turns, inputMessage,
                            currentView, currentAdminTab, speech,
                            serviceHistory>>]_vars

\* a typed, non-empty send request has been ignored while a turn is running
C2_Witness ==
    /\ lastSend = "ignored"
    /\ chatState # "IDLE"
    /\ inputMessage = InputHola

\* C3: whenever no turn is in flight chatState is IDLE, and every step that
\* ends a turn, after a completed stream or after a failure, sets IDLE.
C3_IdleWhenNoTurnInFlight ==
    /\ [](InFlight = {} => chatState = "IDLE")
    /\ [][\A t \in 1..Len(turns) :
            (turns[t].pc \in HandlerPcs /\ turns'[t].pc = "done")
                => chatState' = "IDLE"]_vars

\* a turn has failed and is over: its error message is shown, no turn is in
\* flight
C3_Witness ==
    /\ \E i \in 1..Len(messages) :
          messages[i].role = "error" /\ messages[i].md
    /\ InFlight = {}
    /\ \A t \in 1..Len(turns) : turns[t].pc = "done"

\* C4: an accepted send request sets GENERATING before any event runs: the
\* continuation of its await starts the turn with GENERATING, every event
\* handler that runs while an accepted request is not over finds chatState
\* not IDLE, and chatState is not IDLE while the turn is in flight.
C4_NonIdleFromAcceptance ==
    /\ [][\A t \in 1..Len(turns) :
            (turns[t].pc = "parseMsg" /\ turns'[t].pc # "done")
                => (chatState' = "GENERATING" /\ turns'[t].pc = "stream")]_vars
    /\ [][((\E text \in ChatInputs : TypeInput(text)) \/ SendTyped
            \/ MapClick \/ GeocodeOk \/ GeocodeFailed)
           => ((\E t \in 1..Len(turns) : turns[t].pc # "done")
                  => chatState # "IDLE")]_vars
    /\ [](InFlight # {} => chatState # "IDLE")

\* the typed request has been accepted and its turn awaits the stream
C4_Witness ==
    \E t \in 1..Len(turns) :
        /\ turns[t].pc = "stream"
        /\ turns[t].msg = InputHola
        /\ turns[t].received = 0
        /\ chatState = "GENERATING"

\* the edges of the chat state machine
ChatEdges ==
    {<<"IDLE", "GENERATING">>, <<"GENERATING", "THINKING">>,
     <<"GENERATING", "EXECUTING">>, <<"THINKING", "EXECUTING">>,
     <<"EXECUTING", "THINKING">>, <<"GENERATING", "IDLE">>,
     <<"THINKING", "IDLE">>, <<"EXECUTING", "IDLE">>}

\* C5: chatState changes only along the edges of the chat state machine.
C5_OnlyChatEdges ==
    [][chatState' # chatState => <<chatState, chatState'>> \in ChatEdges]_vars

\* a reasoning part has followed a text part: the edge from EXECUTING to
\* THINKING has been taken
C5_Witness ==
    \E t \in 1..Len(turns) :
        /\ turns[t].pc = "renderThought"
        /\ turns[t].newCode # <<>>
        /\ chatState = "THINKING"

\* C6: the step that takes a reasoning part from the stream sets THINKING,
\* the step that takes a non-empty text part sets EXECUTING, and the two
\* steps that handle a tool-call part leave chatState as it is.
C6_FragmentSetsChatState ==
    [][\A t \in 1..Len(turns) :
         /\ (turns[t].pc = "stream" /\ turns'[t].part # NoPart) =>
              LET part == turns'[t].part
              IN  /\ part.thought # <<>> => chatState' = "THINKING"
                  /\ (part.thought = <<>> /\ part.text # <<>>
                      /\ ~part.hasCall) => chatState' = "EXECUTING"
                  /\ (part.hasCall /\ part.thought = <<>>
                      /\ part.text = <<>>) => chatState' = chatState
         /\ (turns[t].pc = "renderCall" /\ turns'[t].pc = "stream")
              => chatState' = chatState]_vars

\* a tool-call part is being handled after a text part: the state is the
\* one the text part set
C6_Witness ==
    \E t \in 1..Len(turns) :
        /\ turns[t].pc = "renderCall"
        /\ turns[t].newCode # <<>>
        /\ chatState = "EXECUTING"

\* C7: the step that takes a tool-call part from the stream sends
\* {name: camelCaseToDash(name), arguments} through the transport.
C7_CallForwarded ==
    [][\A t \in 1..Len(turns) :
         (turns[t].pc = "stream" /\ turns'[t].pc = "renderCall")
             => transportSent' = Append(transportSent, McpCall(turns'[t].part))
      ]_vars

\* C8: a tool-call part appends exactly one assistant message of its own,
\* and once its explanation is rendered that message holds 'Calling
\* function:' with the dash-renamed name and the arguments; the output
\* buffer and every other message, the turn's own included, are untouched.
C8_CallExplainedInOwnMessage ==
    [][\A t \in 1..Len(turns) :
         /\ (turns[t].pc = "stream" /\ turns'[t].pc = "renderCall") =>
              /\ messages' = Append(messages, Element("assistant", <<>>))
              /\ turns'[t].el = Len(messages')
              /\ turns'[t].newCode = turns[t].newCode
         /\ (turns[t].pc = "renderCall" /\ turns'[t].pc # "renderError") =>
              LET at == turns[t].el
                  shown == messages'[at]
                  part == turns[t].part
              IN  /\ at # turns[t].own
                  /\ Len(messages') = Len(messages)
                  /\ \A i \in 1..Len(messages) :
                        i # at => messages'[i] = messages[i]
                  /\ shown.role = "assistant"
                  /\ shown.md
                  /\ MatchAt(shown.text, CallingFunction, 1)
                  /\ includes(shown.text, Quote(camelCaseToDash(part.name)))
                  /\ part.name = ViewLocationName
                        => includes(shown.text, Quote(ViewLocationDashed))
                  /\ \A k \in 1..Len(part.args) :
                        /\ includes(shown.text, Quote(part.args[k][1]))
                        /\ includes(shown.text, Quote(part.args[k][2]))
                  /\ turns'[t].newCode = turns[t].newCode]_vars

\* the explanation of viewLocationGoogleMaps is shown in a message of its own
C8_Witness ==
    \E i \in 1..Len(messages) :
        /\ messages[i].role = "assistant"
        /\ messages[i].md
        /\ includes(messages[i].text, CallingFunction)
        /\ includes(messages[i].text, ViewLocationDashed)

\* C9: camelCaseToDash applied to its own result gives that result again,
\* and the result holds no uppercase letter.
C9_RenameIdempotentLowercase ==
    probeOut # <<>> =>
        /\ camelCaseToDash(probeOut[1]) = probeOut[1]
        /\ \A i \in 1..Len(probeOut[1]) : probeOut[1][i] \notin Upper

\* viewLocationGoogleMaps has been renamed
C9_Witness ==
    /\ probeIn = ViewLocationName
    /\ probeOut = <<ViewLocationDashed>>

\* the positions where the opening and the closing tag occur in a text
Opens(s) == {i \in 1..Len(s) : MatchAt(s, OpenTag, i)}

Closes(s) == {i \in 1..Len(s) : MatchAt(s, CloseTag, i)}

\* a closed block: an opening tag with a closing tag after it
HasBlock(s) ==
    \E i \in Opens(s) : \E j \in Closes(s) : j >= i + Len(OpenTag)

\* the first block of s runs from the opening tag at i to the closing tag at j
FirstBlock(s, i, j) ==
    /\ i \in Opens(s)
    /\ j \in Closes(s)
    /\ j >= i + Len(OpenTag)
    /\ \A i2 \in Opens(s) : i2 >= i
    /\ \A j2 \in Closes(s) : j2 >= i + Len(OpenTag) => j2 >= j

\* C10: a text with no closed block is returned unchanged by the redaction,
\* and a text with one closed block is returned with exactly that block,
\* tags included, removed and the rest unchanged and in order.
C10_RedactRemovesTheBlock ==
    probeOut # <<>> =>
        /\ ~HasBlock(probeIn) => probeOut[1] = probeIn
        /\ \A i \in Opens(probeIn), j \in Closes(probeIn) :
              (/\ FirstBlock(probeIn, i, j)
               /\ ~HasBlock(From(probeIn, j + Len(CloseTag))))
              => probeOut[1] =
                     SubSeq(probeIn, 1, i - 1)
                     \o From(probeIn, j + Len(CloseTag))

\* a text with one block between other characters has been redacted
C10_Witness ==
    /\ probeIn = <<"a">> \o OpenTag \o <<"\n", "b">> \o CloseTag
    /\ probeOut = <<<<"a">>>>

(***************************************************************************)
(* The confirmation block read line by line, as its format states it       *)
(* (src/index.tsx:53-61): the value of a label is what follows the label   *)
(* on the label's own line.                                                *)
(***************************************************************************)
\* the lines of s, without their line ends
RECURSIVE LinesOf(_, _, _)
LinesOf(s, i, line) ==
    IF i > Len(s) THEN <<line>>
    ELSE IF s[i] = "\n" THEN <<line>> \o LinesOf(s, i + 1, <<>>)
    ELSE LinesOf(s, i + 1, Append(line, s[i]))

\* the lines of s that start with label
LabelLines(s, label) ==
    LET StartsWith(line) == MatchAt(line, label, 1)
    IN  SelectSeq(LinesOf(s, 1, <<>>), StartsWith)

\* the value on the first line of label, <<>> when the line is absent or
\* holds white space only
OwnLineValue(s, label) ==
    IF LabelLines(s, label) = <<>> THEN <<>>
    ELSE trim(From(LabelLines(s, label)[1], Len(label) + 1))

\* the step of turn t is the end of its stream
StreamEnds(t) ==
    /\ turns[t].pc = "stream"
    /\ turns'[t].pc \in {"done", "renderDone"}

\* what stands between the tags of the first block of s
FirstBodies(s) ==
    {SubSeq(s, i + Len(OpenTag), j - 1) :
        <<i, j>> \in {p \in Opens(s) \X Closes(s) : FirstBlock(s, p[1], p[2])}}

\* C11: the end of a stream whose confirmation block lacks the Name, the
\* Phone or the Address line, or has only white space on it, leaves
\* serviceHistory as it is.
C11_NoRecordWithoutRequiredField ==
    [][\A t \in 1..Len(turns) :
         (/\ StreamEnds(t)
          /\ \E body \in FirstBodies(turns[t].newCode) :
                \E label \in {LabelName, LabelPhone, LabelAddress} :
                    OwnLineValue(body, label) = <<>>)
         => serviceHistory' = serviceHistory]_vars

\* the three required values stand on their own lines in body
RequiredFilled(body) ==
    \A label \in {LabelName, LabelPhone, LabelAddress} :
        OwnLineValue(body, label) # <<>>

\* the record of the values on the lines of body, with the given details
RecordOf(body, details, history) ==
    [id |-> Len(history) + 1, name |-> OwnLineValue(body, LabelName),
     phone |-> OwnLineValue(body, LabelPhone),
     address |-> OwnLineValue(body, LabelAddress), details |-> details,
     status |-> "Pendiente", price |-> Null]

\* C12: the end of a stream whose confirmation block has non-empty Name,
\* Phone and Address values and no Details line puts at the front of
\* serviceHistory a record with those three values and the details
\* 'No especificado'.
C12_DefaultDetails ==
    [][\A t \in 1..Len(turns) :
         StreamEnds(t) =>
            \A body \in FirstBodies(turns[t].newCode) :
               (RequiredFilled(body) /\ LabelLines(body, LabelDetails) = <<>>)
               => serviceHistory' =
                      <<RecordOf(body, NoEspecificado, serviceHistory)>>
                      \o serviceHistory]_vars

\* a record with the default details has been committed for a block of the
\* three required lines
C12_Witness ==
    /\ Len(serviceHistory) = 1
    /\ serviceHistory[1].details = NoEspecificado
    /\ serviceHistory[1].name = ValueName
    /\ serviceHistory[1].phone = ValuePhone
    /\ serviceHistory[1].address = AddressPicked
    /\ \E t \in 1..Len(turns) : turns[t].pc = "done"

\* C13: every record of serviceHistory has a non-empty name, phone, address
\* and details.
C13_RecordsHaveAllFields ==
    \A i \in 1..Len(serviceHistory) :
        /\ serviceHistory[i].name # <<>>
        /\ serviceHistory[i].phone # <<>>
        /\ serviceHistory[i].address # <<>>
        /\ serviceHistory[i].details # <<>>

\* a record has been committed for a block whose Details line is blank: its
\* details are neither the placeholder nor the value the model writes
C13_Witness ==
    /\ Len(serviceHistory) = 1
    /\ serviceHistory[1].details \notin {NoEspecificado, ValueDetails}
    /\ serviceHistory[1].name = ValueName

\* C14: the end of a stream whose confirmation block has four non-empty
\* values adds exactly one record, at the front, with exactly those values,
\* the status 'Pendiente' and no price; for the block of Juan the values
\* are Juan, 3334854080, llanta ponchada and Calle 5, Mazamitla.
C14_CompleteBlockCommitsOneRecord ==
    [][\A t \in 1..Len(turns) :
         StreamEnds(t) =>
            /\ \A body \in FirstBodies(turns[t].newCode) :
                 (RequiredFilled(body) /\ OwnLineValue(body, LabelDetails) # <<>>)
                 => serviceHistory' =
                        <<RecordOf(body, OwnLineValue(body, LabelDetails),
                                   serviceHistory)>>
                        \o serviceHistory
            /\ turns[t].newCode = TextHola \o TextBlock \o TextHola
                 => /\ Len(serviceHistory') = Len(serviceHistory) + 1
                    /\ serviceHistory'[1].name = ValueName
                    /\ serviceHistory'[1].phone = ValuePhone
                    /\ serviceHistory'[1].details = ValueDetails
                    /\ serviceHistory'[1].address = AddressPicked
                    /\ serviceHistory'[1].status = "Pendiente"
                    /\ serviceHistory'[1].price = Null]_vars

\* the record of the block of Juan has been committed and the text is shown
\* without the block
C14_Witness ==
    /\ Len(serviceHistory) = 1
    /\ serviceHistory[1].name = ValueName
    /\ serviceHistory[1].details = ValueDetails
    /\ serviceHistory[1].status = "Pendiente"
    /\ serviceHistory[1].price = Null
    /\ messages[2].md
    /\ messages[2].text = TextHola \o TextHola
    /\ \A t \in 1..Len(turns) : turns[t].pc = "done"

\* the fields of record r are all read between the tags of body
ReadFrom(r, body) ==
    /\ includes(body, r.name)
    /\ includes(body, r.phone)
    /\ includes(body, r.address)
    /\ r.details = NoEspecificado \/ includes(body, r.details)

\* C15: serviceHistory changes only at the end of a turn's stream, by one
\* record at most, and the fields of that record are read from the first
\* closed block of the turn's text, whatever follows that block.
C15_OneRecordFromFirstBlock ==
    [][/\ serviceHistory' # serviceHistory
          => \E t \in 1..Len(turns) : StreamEnds(t)
       /\ \A t \in 1..Len(turns) :
            StreamEnds(t) =>
               \/ serviceHistory' = serviceHistory
               \/ /\ Len(serviceHistory') = Len(serviceHistory) + 1
                  /\ SubSeq(serviceHistory', 2, Len(serviceHistory'))
                         = serviceHistory
                  /\ \E body \in FirstBodies(turns[t].newCode) :
                         ReadFrom(serviceHistory'[1], body)]_vars

\* a turn whose text held two blocks is over: one record, of the first
\* block, is committed and the second block is what is left in the text
C15_Witness ==
    /\ Len(serviceHistory) = 1
    /\ serviceHistory[1].name = ValueName
    /\ messages[2].text = SecondBlock
    /\ \A t \in 1..Len(turns) : turns[t].pc = "done"

\* a field of the parameters that holds a non-empty string
Present(v) == v # Undefined /\ Len(v) > 0

\* C16: handleMapQuery takes the first case that applies: a location is
\* viewed whatever origin and destination are; else origin and destination
\* together start directions; else a destination is viewed; else nothing is
\* started; never more than one operation per call.
C16_FirstMatchDispatch ==
    probeOut # <<>> =>
        LET p == probeIn
            ops == probeOut[1]
        IN  /\ Len(ops) <= 1
            /\ Present(p.location) =>
                  ops = <<[op |-> "viewLocation", location |-> p.location]>>
            /\ (~Present(p.location) /\ Present(p.origin)
                  /\ Present(p.destination)) =>
                  ops = <<[op |-> "directions", origin |-> p.origin,
                           destination |-> p.destination]>>
            /\ (~Present(p.location) /\ ~Present(p.origin)
                  /\ Present(p.destination)) =>
                  ops = <<[op |-> "viewLocation",
                           location |-> p.destination]>>
            /\ (~Present(p.location) /\ ~Present(p.destination)) =>
                  ops = <<>>

C16_Witness ==
    /\ probeIn = [location |-> <<>>, origin |-> QueryValue,
                  destination |-> AddressPicked]
    /\ probeOut = <<<<[op |-> "directions", origin |-> QueryValue,
                       destination |-> AddressPicked]>>>>

\* the messages among the first n that do not have the role error
KeptBefore(n) == {i \in 1..n : messages[i].role # "error"}

\* the place of message i among the kept messages K
Rank(K, i) == Cardinality({j \in K : j <= i})

\* C17: the history of a turn in progress lists the messages displayed
\* before the turn's own element in display order, without the messages of
\* role error, a user message as role 'user' and any other message as role
\* 'model', each with its text content.
C17_HistoryProjection ==
    \A t \in 1..Len(turns) :
        turns[t].pc \in HandlerPcs =>
            LET h == turns[t].history
                K == KeptBefore(turns[t].own - 1)
            IN  /\ Len(h) = Cardinality(K)
                /\ \A i \in K :
                      /\ h[Rank(K, i)].role =
                             (IF messages[i].role = "user" THEN "user"
                              ELSE "model")
                      /\ h[Rank(K, i)].text = trim(messages[i].text)
                      /\ h[Rank(K, i)].md = messages[i].md

\* a user turn in progress after a greeting that called a tool and a map
\* error: greeting prompt, reply and explanation as 'model', the error left
\* out, the user message as 'user'
C17_Witness ==
    \E t \in 1..Len(turns) :
        /\ turns[t].pc \in HandlerPcs
        /\ \E i \in 1..(turns[t].own - 1) : messages[i].role = "error"
        /\ \E i \in 1..(turns[t].own - 1) : HasCallingFunction(messages[i])
        /\ Len(turns[t].history) = 4
        /\ turns[t].history[1].role = "model"
        /\ turns[t].history[1].text = GreetingPrompt
        /\ turns[t].history[4].role = "user"

\* C18: in the step that builds the history of a turn, the entry left out
\* at the end of the projection is the element of role assistant that the
\* same step created for the turn: it is new, it is the last message that
\* is not an error, and the history is one entry shorter than the
\* projection of all the messages.
C18_DroppedEntryIsOwnPlaceholder ==
    [][\A t \in 1..Len(turns) :
          (turns[t].pc = "parseMsg" /\ turns'[t].pc = "stream") =>
              LET own == turns'[t].own
                  K == {i \in 1..Len(messages') : messages'[i].role # "error"}
              IN  /\ own > Len(messages)
                  /\ own \in K
                  /\ \A i \in K : i <= own
                  /\ messages'[own].role = "assistant"
                  /\ Len(turns'[t].history) = Cardinality(K) - 1]_vars

\* a user turn has just built its history while an error message of the map
\* handler is displayed: the last entry of the history is the user message
C18_Witness ==
    \E t \in 1..Len(turns) :
        /\ turns[t].pc = "stream"
        /\ messages[turns[t].own] = Element("assistant", Ellipsis)
        /\ MapErrorMessages # {}
        /\ turns[t].history # <<>>
        /\ turns[t].history[Len(turns[t].history)].role = "user"
        /\ messages[turns[t].own - 1].role = "user"

\* the primary output of turn t shows no text: the placeholder or nothing
OutputEmpty(t) ==
    \/ InnerHTMLIsEllipsis(messages[turns[t].own])
    \/ InnerHTMLEmpty(messages[turns[t].own])

\* a tool-call explanation was added after the element of turn t, that is,
\* during the turn
CalledDuring(t) ==
    \E i \in (turns[t].own + 1)..Len(messages) :
        HasCallingFunction(messages[i])

\* C19: at the end of a stream that left the primary output empty, the
\* notice 'Done.' is rendered exactly when no tool-call explanation was
\* emitted during that turn; otherwise the output is left empty.
C19_DoneIffNoCallThisTurn ==
    [][\A t \in 1..Len(turns) :
          (StreamEnds(t) /\ OutputEmpty(t)) =>
              /\ (turns'[t].pc = "renderDone") <=> ~CalledDuring(t)
              /\ CalledDuring(t) => InnerHTMLEmpty(messages'[turns[t].own])]_vars

\* c is the lower-case letter d or its capital, or the character d itself
SameLetter(c, d) ==
    \/ c = d
    \/ \E n \in 1..Len(UpperSeq) : UpperSeq[n] = c /\ LowerSeq[n] = d

\* the lower-case phrase occurs in s in some letter case
ContainsAnyCase(s, phrase) ==
    \E i \in 1..(Len(s) - Len(phrase) + 1) :
        \A k \in 1..Len(phrase) : SameLetter(s[i + k - 1], phrase[k])

\* C20: the end of a stream arms the selection of a location (mode on, the
\* prompt set, the marker of an earlier selection removed) when the
\* accumulated text holds 'click on the map' or 'clic en el mapa' in any
\* letter case, and leaves the mode as it is otherwise, with or without
\* tool calls in the turn.
C20_ArmedIffTriggerPhrase ==
    [][\A t \in 1..Len(turns) :
          StreamEnds(t) =>
              IF \/ ContainsAnyCase(turns[t].newCode, TriggerEn)
                 \/ ContainsAnyCase(turns[t].newCode, TriggerEs)
              THEN /\ isLocationSelectionMode'
                   /\ locationSelectionMessage' =
                          "Haga clic en el mapa para establecer su ubicacion"
                   /\ ~selectionMarker'
              ELSE UNCHANGED <<isLocationSelectionMode,
                               locationSelectionMessage, selectionMarker>>]_vars

\* armed by a turn that called a tool and whose text holds the English
\* phrase with capitals
C20_Witness ==
    /\ isLocationSelectionMode
    /\ turns[1].pc = "done"
    /\ messages[2].text = TextClickEn
    /\ \E i \in 1..Len(messages) : HasCallingFunction(messages[i])

\* the messages of role error
ErrorMessages == {i \in 1..Len(messages) : messages[i].role = "error"}

\* C21: a failure inside the try block of a turn appends one element of
\* role error and nothing else; the turn then only awaits the rendering of
\* 'Error: ' and the failure text into that element and ends, without
\* adding a message and without going back to the stream; a turn that is
\* over stays over, and the model is asked again only by a turn that a new
\* send created.
C21_OneErrorMessageNoRetry ==
    [][\A t \in 1..Len(turns) :
          /\ (turns[t].pc \in TryPcs /\ turns'[t].pc \notin TryPcs
                  /\ turns'[t].pc # "done") =>
                /\ turns'[t].pc = "renderError"
                /\ messages' = Append(messages, Element("error", <<>>))
                /\ turns'[t].el = Len(messages')
                /\ turns'[t].pending = ErrorPrefix \o FailureText
          /\ turns[t].pc = "renderError" =>
                /\ turns'[t].pc \in {"renderError", "done"}
                /\ \/ messages' = messages
                   \/ /\ turns'[t].pc = "done"
                      /\ messages' =
                             [messages EXCEPT ![turns[t].el] =
                                 [@ EXCEPT !.md = TRUE,
                                           !.text = turns[t].pending]]
          /\ turns[t].pc = "done" => turns'[t] = turns[t]
          /\ turns'[t].pc = "stream" =>
                turns[t].pc \in {"parseMsg", "stream", "renderCall",
                                 "renderThought", "renderText"}
          /\ turns'[t].pc = "parseMsg" => turns[t].pc = "parseMsg"]_vars

\* a turn has failed and is over: the only message of role error shows the
\* failure text, and the state is IDLE again
C21_Witness ==
    /\ turns[1].pc = "done"
    /\ chatState = "IDLE"
    /\ Cardinality(ErrorMessages) = 1
    /\ \A i \in ErrorMessages :
          messages[i].text = ErrorPrefix \o FailureText /\ messages[i].md

\* the place of a status on the path Pendiente, Aprobado, En Proceso,
\* Terminado
StatusRank(status) ==
    CASE status = "Pendiente" -> 1
      [] status = "Aprobado" -> 2
      [] status = "En Proceso" -> 3
      [] status = "Terminado" -> 4
      [] OTHER -> 0

\* C22: in every step every recorded service stays recorded, and its status
\* either stays or moves to the next one of Pendiente, Aprobado, En Proceso,
\* Terminado; nothing follows Terminado.
C22_StatusOnlyStepsForward ==
    [][\A i \in 1..Len(serviceHistory) :
          \E j \in 1..Len(serviceHistory') :
              /\ serviceHistory'[j].id = serviceHistory[i].id
              /\ StatusRank(serviceHistory[i].status) \in 1..4
              /\ \/ serviceHistory'[j].status = serviceHistory[i].status
                 \/ StatusRank(serviceHistory'[j].status) =
                        StatusRank(serviceHistory[i].status) + 1]_vars

\* one service has been taken through the three actions while another one
\* has only been approved
C22_Witness ==
    \E i, j \in 1..Len(serviceHistory) :
        /\ serviceHistory[i].status = "Terminado"
        /\ serviceHistory[j].status = "Aprobado"

\* C23: a recorded service has a price exactly when its status is
\* Terminado, and that price is not blank.
C23_PriceIffTerminado ==
    \A i \in 1..Len(serviceHistory) :
        /\ (serviceHistory[i].price # Null)
               <=> (serviceHistory[i].status = "Terminado")
        /\ serviceHistory[i].price # Null =>
               \E k \in 1..Len(serviceHistory[i].price) :
                   serviceHistory[i].price[k] \notin Space

\* a finished service with the default price beside a service in process,
\* whose price dialog may have been cancelled
C23_Witness ==
    \E i, j \in 1..Len(serviceHistory) :
        /\ serviceHistory[i].status = "Terminado"
        /\ serviceHistory[i].price = <<"0", ".", "0", "0">>
        /\ serviceHistory[j].status = "En Proceso"
        /\ serviceHistory[j].price = Null

\* C25: while a turn awaits the next fragment after some text, its output
\* element shows the rendering of the whole accumulated text when that text
\* has no closed confirmation block, an opened block included as it came,
\* and of the accumulated text without its first closed block, tags
\* included, once a closing tag has arrived.
C25_StreamedOutputIsRedacted ==
    \A t \in 1..Len(turns) :
        (turns[t].pc = "stream" /\ turns[t].newCode # <<>>) =>
            LET code == turns[t].newCode
                shown == messages[turns[t].own]
            IN  /\ shown.md
                /\ ~HasBlock(code) => shown.text = code
                /\ \A i \in Opens(code), j \in Closes(code) :
                      FirstBlock(code, i, j) =>
                          shown.text =
                              SubSeq(code, 1, i - 1)
                              \o From(code, j + Len(CloseTag))

\* a block came in two fragments, cut inside its closing tag, between two
\* other texts: only the other texts are shown
C25_Witness ==
    /\ turns[1].pc = "stream"
    /\ turns[1].newCode = TextHola \o StreamHead \o StreamTail
    /\ messages[turns[1].own].text = TextHola
    /\ partsLeft = 0

\* C26: the end of a stream whose confirmation block has non-empty Name,
\* Phone and Address values and a Details line with white space only,
\* wherever that line stands, puts at the front of serviceHistory a record
\* with the three values and the details 'No especificado'.
C26_BlankDetailsDefault ==
    [][\A t \in 1..Len(turns) :
         StreamEnds(t) =>
            \A body \in FirstBodies(turns[t].newCode) :
               (/\ RequiredFilled(body)
                /\ LabelLines(body, LabelDetails) # <<>>
                /\ OwnLineValue(body, LabelDetails) = <<>>)
               => serviceHistory' =
                      <<RecordOf(body, NoEspecificado, serviceHistory)>>
                      \o serviceHistory]_vars

\* body has exactly one line for each of the four labels
FourLines(body) ==
    \A label \in BlockLabels : Len(LabelLines(body, label)) = 1

\* C27: at the end of a stream whose confirmation block has one line for
\* each of the four labels, in any order, the fields extracted are the
\* values on the labels' own lines: a record of those values (the
\* placeholder for empty details) is committed when Name, Phone and Address
\* have values, and none otherwise, so the order of the lines does not
\* matter.
C27_FieldsFromOwnLines ==
    [][\A t \in 1..Len(turns) :
         StreamEnds(t) =>
            \A body \in FirstBodies(turns[t].newCode) :
               FourLines(body) =>
                  serviceHistory' =
                      IF RequiredFilled(body)
                      THEN <<RecordOf(body,
                                 IF OwnLineValue(body, LabelDetails) # <<>>
                                 THEN OwnLineValue(body, LabelDetails)
                                 ELSE NoEspecificado,
                                 serviceHistory)>> \o serviceHistory
                      ELSE serviceHistory]_vars

\* the boundaries of a name: k when a dash belongs between the k-th and the
\* next character, a lower-case letter before a capital, or a capital
\* before a capital that a lower-case letter follows
Boundaries(s) ==
    {k \in 1..(Len(s) - 1) :
        \/ s[k] \in Lower /\ s[k + 1] \in Upper
        \/ /\ s[k] \in Upper
           /\ s[k + 1] \in Upper
           /\ k + 2 <= Len(s)
           /\ s[k + 2] \in Lower}

\* C28: the result of camelCaseToDash on a name of letters has one dash for
\* every boundary of the name, adjacent boundaries included, after the
\* character before the boundary, the letters of the name in lower case in
\* between, and nothing else.
C28_DashAtEveryBoundary ==
    probeOut # <<>> =>
        LET s == probeIn
            out == probeOut[1]
            B == Boundaries(s)
        IN  /\ Len(out) = Len(s) + Cardinality(B)
            /\ \A i \in 1..Len(s) :
                  LET c == out[i + Cardinality({k \in B : k < i})]
                  IN  SameLetter(s[i], c) /\ c \notin Upper
            /\ \A k \in B :
                  out[k + Cardinality({k2 \in B : k2 <= k})] = "-"

\* a name with two adjacent boundaries, after a and after B
C28_Witness ==
    /\ probeIn = <<"a", "B", "A", "b">>
    /\ probeOut = <<<<"a", "-", "b", "-", "a", "b">>>>

\* a is a prefix of b
IsPrefix(a, b) == Len(a) <= Len(b) /\ SubSeq(b, 1, Len(a)) = a

\* C29: until a turn ends, each of its steps leaves the accumulated text
\* and the accumulated thoughts as they are or appends to them; a part is
\* taken from the stream only when the rendering of the part before it is
\* over, its thought or text is appended to the whole of what came before,
\* and what is rendered and then shown is computed from the whole buffer.
C29_BuffersOnlyGrow ==
    [][\A t \in 1..Len(turns) :
          (turns[t].pc \in HandlerPcs /\ turns'[t].pc \in HandlerPcs) =>
              /\ IsPrefix(turns[t].newCode, turns'[t].newCode)
              /\ IsPrefix(turns[t].thoughtAccumulator,
                          turns'[t].thoughtAccumulator)
              /\ turns'[t].received # turns[t].received =>
                    /\ turns[t].pc = "stream"
                    /\ turns'[t].received = turns[t].received + 1
              /\ (turns[t].pc = "stream" /\ turns'[t].pc = "renderText") =>
                    /\ turns'[t].newCode =
                           turns[t].newCode \o turns'[t].part.text
                    /\ turns'[t].pending = Redact(turns'[t].newCode)
              /\ (turns[t].pc = "stream" /\ turns'[t].pc = "renderThought") =>
                    /\ turns'[t].thoughtAccumulator =
                           turns[t].thoughtAccumulator \o <<" ">>
                           \o turns'[t].part.thought
                    /\ turns'[t].pending = turns'[t].thoughtAccumulator
              /\ (turns[t].pc = "renderText" /\ turns'[t].pc = "stream") =>
                    messages'[turns[t].own].text = Redact(turns[t].newCode)
              /\ (turns[t].pc = "renderThought" /\ turns'[t].pc = "stream") =>
                    messages'[turns[t].own].thinking =
                        turns[t].thoughtAccumulator]_vars

\* two texts and a thought have been received and rendered, each buffer
\* holding all of its fragments in order
C29_Witness ==
    /\ turns[1].pc = "stream"
    /\ turns[1].newCode = TextHola \o StreamHead
    /\ turns[1].thoughtAccumulator = <<" ">> \o ThoughtTrue
    /\ messages[turns[1].own].text = TextHola \o StreamHead
    /\ messages[turns[1].own].thinking = <<" ">> \o ThoughtTrue

\* C30: in the step that builds the history of a turn and asks the model,
\* the history holds the messages displayed before the element of the
\* turn's own input and no more, so that the input, which is the message
\* argument of the call, is not an entry of the history as well.
C30_InputNotInHistory ==
    [][\A t \in 1..Len(turns) :
          (turns[t].pc = "parseMsg" /\ turns'[t].pc = "stream") =>
              /\ turns'[t].msg = turns[t].msg
              /\ Len(turns'[t].history) =
                     Cardinality({i \in 1..(turns[t].el - 1) :
                                     messages'[i].role # "error"})]_vars

\* the step of turn t is its last one
TurnEnds(t) == turns[t].pc \in HandlerPcs /\ turns'[t].pc = "done"

\* what code shows when it has at most one closed block: the text outside
\* that block
OutsideBlock(code) ==
    IF HasBlock(code)
    THEN LET p == CHOOSE q \in Opens(code) \X Closes(code) :
                      FirstBlock(code, q[1], q[2])
         IN  SubSeq(code, 1, p[1] - 1) \o From(code, p[2] + Len(CloseTag))
    ELSE code

C32_PickedAddressStartsTurn ==
    [][GeocodeOk =>
          /\ Len(turns') = Len(turns) + 1
          /\ turns'[Len(turns')].msg = AddressPicked
          /\ Len(messages') = Len(messages) + 1
          /\ messages'[Len(messages')].role = "user"
          /\ turns'[Len(turns')].el = Len(messages')]_vars

\* the queries that have an element on the map
QueriesOnMap == {c.q : c \in mapChildren}

\* C33: the map holds the elements of at most one query's result: whatever
\* the order of the callbacks, all markers and polylines attached to the
\* map were drawn for the same query.
C33_ElementsOfOneQuery == Cardinality(QueriesOnMap) <= 1

\* C34: a send request made while IDLE with no message argument and a
\* blank input field changes nothing: no message is added, no turn is
\* started, and isLocationSelectionMode keeps its value.
C34_EmptySendChangesNothing ==
    [][(SendTyped /\ chatState = "IDLE" /\ trim(inputMessage) = <<>>) =>
          UNCHANGED <<messages, turns, isLocationSelectionMode>>]_vars

\* C35: a turn that fails before its stream has completed performs none of
\* the effects that follow the stream: neither the step that catches the
\* failure nor a later step of the turn adds a service record, arms the
\* location selection or starts a speech, whatever had been received.
C35_FailedTurnHasNoPostStreamEffects ==
    [][\A t \in 1..Len(turns) :
          (/\ turns[t].pc # "renderDone"
           /\ \/ turns[t].pc \in TryPcs /\ turns'[t].pc = "renderError"
              \/ turns[t].pc = "renderError" /\ turns'[t] # turns[t]) =>
              UNCHANGED <<serviceHistory, isLocationSelectionMode,
                          locationSelectionMessage, speech>>]_vars

\* a turn failed while its stream was open, after a complete block with
\* all required fields and a trigger phrase had been received: no record,
\* no armed mode, no speech
C35_Witness ==
    /\ turns[1].pc = "renderError"
    /\ Confirmation(turns[1].newCode) # <<>>
    /\ includes(toLowerCase(turns[1].newCode), TriggerEn)
    /\ serviceHistory = <<>>
    /\ ~isLocationSelectionMode
    /\ speech = NoSpeech

\* C36: when the price dialog of the finish action is cancelled or answered
\* with a blank string, serviceHistory is unchanged: the record keeps the
\* status 'En Proceso' and no price, and its button Terminar is still
\* rendered.
C36_NoPriceNoFinish ==
    \A i \in 1..Len(serviceHistory) :
        FinishShown(serviceHistory[i]) =>
            \A price \in {Null, <<>>, <<" ">>} :
                LET after == handleFinish(serviceHistory,
                                          serviceHistory[i].id, price)
                IN  /\ after = serviceHistory
                    /\ after[i].status = "En Proceso"
                    /\ after[i].price = Null
                    /\ FinishShown(after[i])

\* the button Terminar of a service is on the page, with a finished service
\* next to it: a cancelled dialog leaves both as they are
C36_Witness ==
    /\ \E i \in 1..Len(serviceHistory) :
           /\ FinishShown(serviceHistory[i])
           /\ handleFinish(serviceHistory, serviceHistory[i].id, Null)
                  = serviceHistory
    /\ \E i \in 1..Len(serviceHistory) : serviceHistory[i].status = "Terminado"

\* C37: serviceHistory is append-only with stable records: a step that
\* changes it either places one new record at the front and leaves the
\* others as they were, or changes the status (and, when the new status is
\* Terminado, the price) of one record and nothing else of it nor any
\* other record; and an approve, process or finish action on an id that no
\* record has changes nothing.
C37_AppendOnlyStableRecords ==
    [][/\ serviceHistory' # serviceHistory =>
            \/ /\ Len(serviceHistory') = Len(serviceHistory) + 1
               /\ Tail(serviceHistory') = serviceHistory
               /\ \A i \in 1..Len(serviceHistory) :
                      serviceHistory[i].id # serviceHistory'[1].id
            \/ /\ Len(serviceHistory') = Len(serviceHistory)
               /\ \E i \in 1..Len(serviceHistory) :
                      /\ \A j \in 1..Len(serviceHistory) :
                             j # i => serviceHistory'[j] = serviceHistory[j]
                      /\ serviceHistory'[i].status # serviceHistory[i].status
                      /\ [serviceHistory'[i] EXCEPT
                             !.status = serviceHistory[i].status,
                             !.price = serviceHistory[i].price]
                             = serviceHistory[i]
                      /\ serviceHistory'[i].price # serviceHistory[i].price =>
                             serviceHistory'[i].status = "Terminado"
       /\ LET unknown == Len(serviceHistory) + 1
          IN  /\ handleApprove(serviceHistory, unknown) = serviceHistory
              /\ handleProcess(serviceHistory, unknown) = serviceHistory
              /\ \A price \in PromptResults :
                     handleFinish(serviceHistory, unknown, price)
                         = serviceHistory]_vars

\* two records, the older one finished with a price and the newer one,
\* added after the older had been approved, still pending
C37_Witness ==
    /\ Len(serviceHistory) = 2
    /\ serviceHistory[2].status = "Terminado"
    /\ serviceHistory[2].price # Null
    /\ serviceHistory[1].status = "Pendiente"
    /\ serviceHistory[1].id # serviceHistory[2].id

\* s is the administrator's command in some letter case
IsCommand(s) ==
    /\ Len(s) = Len(AdminCommand)
    /\ \A k \in 1..Len(s) : SameLetter(s[k], AdminCommand[k])

\* C38: a typed send request while IDLE whose trimmed input is
\* 'soy administrador' in any letter case opens the administrator's view on
\* the history tab, clears the input, adds no message and starts no turn;
\* the same text given as the message argument (the address of a map
\* click) is sent as an ordinary message and leaves the view as it is.
C38_CommandOnlyFromInputField ==
    [][chatState = "IDLE" =>
         /\ (SendTyped /\ IsCommand(trim(inputMessage))) =>
                /\ currentView' = "admin"
                /\ currentAdminTab' = "history"
                /\ inputMessage' = <<>>
                /\ UNCHANGED <<messages, turns>>
         /\ (/\ geocodes' = geocodes - 1
             /\ IsCommand(InputAdmin)
             /\ sendMessageAction(InputAdmin, "user", FALSE, "")) =>
                /\ UNCHANGED <<currentView, currentAdminTab, inputMessage>>
                /\ Len(messages') = Len(messages) + 1
                /\ messages'[Len(messages')].role = "user"
                /\ Len(turns') = Len(turns) + 1
                /\ turns'[Len(turns')].msg = InputAdmin]_vars

\* the command has come as the address of a map click and is shown as a
\* message of the user, and later the command typed with blanks around it
\* has opened the administrator's view
C38_Witness ==
    /\ currentView = "admin"
    /\ currentAdminTab = "history"
    /\ lastSend = "admin"
    /\ inputMessage = <<>>
    /\ \E i \in 1..Len(messages) :
           /\ messages[i].role = "user"
           /\ messages[i].md
           /\ messages[i].text = InputAdmin

\* item holds the fields of the submitted form (an empty type or price is
\* given its default)
HoldsFields(item, form) ==
    /\ item.name = form.name
    /\ item.description = form.description
    /\ form.type # "" => item.type = form.type
    /\ form.price # "" => item.price = form.price

\* C39: a submit of the inventory form leaves an item with the submitted
\* fields in the inventory: while an item is edited, the item with the
\* edited id is replaced in place (length and order unchanged, the others
\* untouched); otherwise one item is appended; and the persisted copy
\* equals the inventory.
C39_SubmitStoresTheItem ==
    [][\A form \in [name : {"Llanta", "Parche"}, type : {"Producto", ""},
                    price : {"100", ""}, description : {"R15", ""}] :
          handleInventorySubmit(form) =>
              /\ \E k \in 1..Len(inventory') :
                     HoldsFields(inventory'[k], form)
              /\ editingInventoryItem # <<>> =>
                     /\ Len(inventory') = Len(inventory)
                     /\ \E k \in 1..Len(inventory) :
                            /\ inventory[k].id = editingInventoryItem[1].id
                            /\ inventory'[k].id = editingInventoryItem[1].id
                            /\ HoldsFields(inventory'[k], form)
                            /\ \A j \in 1..Len(inventory) :
                                   j # k => inventory'[j] = inventory[j]
              /\ editingInventoryItem = <<>> =>
                     /\ Len(inventory') = Len(inventory) + 1
                     /\ SubSeq(inventory', 1, Len(inventory)) = inventory
                     /\ HoldsFields(inventory'[Len(inventory')], form)
              /\ localStorage' = inventory']_vars

====
